---- MODULE Spec2Model ----
(***************************************************************************)
(* BaseQL MCP server (class BaseQLMCPServer): its construction and its      *)
(* request handlers as a state machine.  One request is handled at a time: *)
(* it arrives while the server is idle, the handler runs up to its first   *)
(* await of the upstream GraphQL client (or throws), the upstream resolves *)
(* or rejects, the handler's continuation builds the response, and the     *)
(* response is returned to the caller.  The legacy entry point (the class  *)
(* of the same name at the head of index.ts) is modelled in its            *)
(* construction and in what it answers while it has no client; its         *)
(* handlers behind a client are not part of this model.                    *)
(*                                                                         *)
(* Strings whose characters the code inspects (filter keys and values,     *)
(* sort fields and directions, searched field names, the search term) are  *)
(* sequences of one-character strings.  An optional argument is <<>> when  *)
(* the caller left it out (JavaScript undefined) and <<v>> when given.     *)
(***************************************************************************)
EXTENDS Integers, Sequences, FiniteSets, TLC

VARIABLES config, graphqlClient, pc, req, sent, local, result, calls

vars == <<config, graphqlClient, pc, req, sent, local, result, calls>>

(***************************************************************************)
(* Bounds of the model.                                                    *)
(***************************************************************************)
MaxSortLen == 2
MaxRecords == 4
MaxSearchFields == 2
MaxKeyTokens == 3
MaxTypes == 3
MaxCalls == 2

(***************************************************************************)
(* Program constants.                                                      *)
(***************************************************************************)
MaxPageSize == 100
DefaultSearchLimit == 10
DefaultSampleSize == 100
MaxResultFields == 10

None == <<>>
Some(v) == <<v>>
IsSome(o) == Len(o) > 0
Val(o) == o[1]

(***************************************************************************)
(* Text.                                                                   *)
(***************************************************************************)
Quote == "\""
Backslash == "\\"
Digits == <<"0", "1", "2", "3", "4", "5", "6", "7", "8", "9">>

RECURSIVE NatChars(_)
NatChars(n) ==
    IF n < 10 THEN <<Digits[n + 1]>>
    ELSE NatChars(n \div 10) \o <<Digits[(n % 10) + 1]>>

\* `${n}` and JSON.stringify(n) of an integer
NumChars(n) == IF n < 0 THEN <<"-">> \o NatChars(-n) ELSE NatChars(n)

RECURSIVE Join(_, _)
Join(ss, sep) ==
    IF ss = <<>> THEN <<>>
    ELSE IF Len(ss) = 1 THEN ss[1]
    ELSE ss[1] \o sep \o Join(Tail(ss), sep)

(***************************************************************************)
(* JSON values: strings, numbers, booleans and lists of these.             *)
(***************************************************************************)
JStr(s) == [t |-> "string", s |-> s, n |-> 0, b |-> FALSE, l |-> <<>>]
JNum(n) == [t |-> "number", s |-> <<>>, n |-> n, b |-> FALSE, l |-> <<>>]
JBool(b) == [t |-> "boolean", s |-> <<>>, n |-> 0, b |-> b, l |-> <<>>]
JList(l) == [t |-> "array", s |-> <<>>, n |-> 0, b |-> FALSE, l |-> l]

RECURSIVE EscapeChars(_)
EscapeChars(s) ==
    IF s = <<>> THEN <<>>
    ELSE (IF Head(s) = Quote \/ Head(s) = Backslash
          THEN <<Backslash, Head(s)>>
          ELSE <<Head(s)>>) \o EscapeChars(Tail(s))

QuoteString(s) == <<Quote>> \o EscapeChars(s) \o <<Quote>>

StringifyScalar(v) ==
    CASE v.t = "string" -> QuoteString(v.s)
      [] v.t = "number" -> NumChars(v.n)
      [] v.t = "boolean" -> (IF v.b THEN <<"t", "r", "u", "e">>
                             ELSE <<"f", "a", "l", "s", "e">>)

StringifyValue(v) ==
    IF v.t = "array"
    THEN <<"[">> \o Join([i \in 1..Len(v.l) |-> StringifyScalar(v.l[i])], <<",">>)
         \o <<"]">>
    ELSE StringifyScalar(v)

\* JSON.stringify of an object given as its entries in insertion order
JsonStringify(obj) ==
    <<"{">>
    \o Join([i \in 1..Len(obj) |->
                QuoteString(obj[i].k) \o <<":">> \o StringifyValue(obj[i].v)],
            <<",">>)
    \o <<"}">>

\* index of the first Quote of s at or after position i, or 0
RECURSIVE NextQuote(_, _)
NextQuote(s, i) ==
    IF i > Len(s) THEN 0
    ELSE IF s[i] = Quote THEN i
    ELSE NextQuote(s, i + 1)

\* s.replace(/"([^"]+)":/g, '$1:'), scanning from position i
RECURSIVE UnquoteFrom(_, _)
UnquoteFrom(s, i) ==
    IF i > Len(s) THEN <<>>
    ELSE LET j == IF s[i] = Quote THEN NextQuote(s, i + 1) ELSE 0
         IN  IF j > i + 1 /\ j < Len(s) /\ s[j + 1] = ":"
             THEN SubSeq(s, i + 1, j - 1) \o <<":">> \o UnquoteFrom(s, j + 2)
             ELSE <<s[i]>> \o UnquoteFrom(s, i + 1)

\* the replace with the captured key left out of the replacement (':' for '$1:')
RECURSIVE UnquoteDropFrom(_, _)
UnquoteDropFrom(s, i) ==
    IF i > Len(s) THEN <<>>
    ELSE LET j == IF s[i] = Quote THEN NextQuote(s, i + 1) ELSE 0
         IN  IF j > i + 1 /\ j < Len(s) /\ s[j + 1] = ":"
             THEN <<":">> \o UnquoteDropFrom(s, j + 2)
             ELSE <<s[i]>> \o UnquoteDropFrom(s, i + 1)

UnquoteKeysDropName(s) == UnquoteDropFrom(s, 1)

UnquoteKeys(s) == UnquoteFrom(s, 1)

\* whether the characters of t occur consecutively in s (String.includes)
Contains(s, t) ==
    \E i \in 0..(Len(s) - Len(t)) : SubSeq(s, i + 1, i + Len(t)) = t

(***************************************************************************)
(* Errors and responses.  An McpError has a code (kind) and a message: the *)
(* handler's prefix, the text, the argument quoted in it, and the hint     *)
(* queryTable appends.  A value thrown by the upstream client is an Error  *)
(* with a message, or not an Error; of the message only the substrings the *)
(* handler looks for are kept (includes).                                  *)
(***************************************************************************)
McpError(kind, prefix, text, detail, hint) ==
    [kind |-> kind, prefix |-> prefix, text |-> text, detail |-> detail,
     hint |-> hint, body |-> <<>>]

InvalidRequest(text) == McpError("InvalidRequest", "", text, <<>>, "")

Content(body) ==
    [kind |-> "ok", prefix |-> "", text |-> "", detail |-> <<>>, hint |-> "",
     body |-> body]

NoResult ==
    [kind |-> "none", prefix |-> "", text |-> "", detail |-> <<>>, hint |-> "",
     body |-> <<>>]

NoReq == [tool |-> "none", args |-> <<>>]

HintSubstrings == {"Unknown type Int", "Unknown argument", "Cannot query field"}

UpstreamError(message, includes) ==
    [isError |-> TRUE, message |-> message, includes |-> includes]

UpstreamErrors ==
    { UpstreamError("socket hang up", {}),
      UpstreamError("Cannot query field x; Unknown argument y; Unknown type Int",
                    HintSubstrings),
      UpstreamError("Cannot query field x; Unknown argument y",
                    {"Unknown argument", "Cannot query field"}),
      UpstreamError("Cannot query field x", {"Cannot query field"}),
      UpstreamError("Unknown argument y", {"Unknown argument"}),
      UpstreamError("Unknown type Int; Cannot query field x",
                    {"Unknown type Int", "Cannot query field"}),
      [isError |-> FALSE, message |-> "", includes |-> {}] }

\* error instanceof Error ? error.message : "Unknown error"
ErrorMessage(error) ==
    IF error.isError THEN error.message ELSE "Unknown error"

ErrorIncludes(error, s) == error.isError /\ s \in error.includes

\* an McpError thrown inside a try block, as the catch block sees it: an Error
\* whose message holds the text given to it (behind the SDK's "MCP error <code>: ")
Thrown(e) == [isError |-> TRUE, message |-> e.text, includes |-> {}]

Min(x, y) == IF x <= y THEN x ELSE y

(***************************************************************************)
(* Names.                                                                  *)
(***************************************************************************)
asc == <<"a", "s", "c">>
desc == <<"d", "e", "s", "c">>
nId == <<"i", "d">>
nTypename == <<"_", "_", "t", "y", "p", "e", "n", "a", "m", "e">>
nName == <<"n", "a", "m", "e">>
nEmail == <<"e", "m", "a", "i", "l">>
nNotes == <<"n", "o", "t", "e", "s">>
nAge == <<"a", "g", "e">>
nStatus == <<"s", "t", "a", "t", "u", "s">>
nFirstName == <<"f", "i", "r", "s", "t", "N", "a", "m", "e">>
nLastName == <<"l", "a", "s", "t", "N", "a", "m", "e">>
nFullName == <<"f", "u", "l", "l", "N", "a", "m", "e">>
nTitle == <<"t", "i", "t", "l", "e">>

\* JavaScript truthiness of an optional string
Truthy(o) == IsSome(o) /\ Val(o) # ""

\* the same, of an optional string kept as its characters
TruthyChars(o) == IsSome(o) /\ Val(o) # <<>>

(***************************************************************************)
(* queryTable: validation and query construction.                          *)
(***************************************************************************)
Query(op, table, argsList, fields) ==
    [op |-> op, table |-> table, argsList |-> argsList, fields |-> fields]

Fragment(name, text) == [name |-> name, text |-> text]

\* an entry of a JavaScript object: key k holds value v
Entry(k, v) == [k |-> k, v |-> v]

DirectionAllowed(d) == d \in {asc, desc}

\* the sort items the validation loop rejects, in list order
BadSortItems(sort) ==
    IF IsSome(sort)
    THEN SelectSeq(Val(sort),
                   LAMBDA s : TruthyChars(s.direction) /\ ~DirectionAllowed(Val(s.direction)))
    ELSE <<>>

\* the validation without the upper limit (limit <= 0 alone)
QueryTableValidateNoCap(a) ==
    IF ~Truthy(a.tableName)
    THEN Some(InvalidRequest("tableName is required and must be a string"))
    ELSE IF IsSome(a.limit) /\ Val(a.limit) <= 0
    THEN Some(InvalidRequest("limit must be between 1 and 100 (BaseQL maximum)"))
    ELSE IF IsSome(a.offset) /\ Val(a.offset) < 0
    THEN Some(InvalidRequest("offset must be 0 or positive"))
    ELSE IF BadSortItems(a.sort) # <<>>
    THEN Some(McpError("InvalidRequest", "", "Invalid sort direction",
                       Val(BadSortItems(a.sort)[1].direction), ""))
    ELSE None

\* the validation without the loop over the sort items
QueryTableValidateNoSort(a) ==
    IF ~Truthy(a.tableName)
    THEN Some(InvalidRequest("tableName is required and must be a string"))
    ELSE IF IsSome(a.limit) /\ (Val(a.limit) <= 0 \/ Val(a.limit) > MaxPageSize)
    THEN Some(InvalidRequest("limit must be between 1 and 100 (BaseQL maximum)"))
    ELSE IF IsSome(a.offset) /\ Val(a.offset) < 0
    THEN Some(InvalidRequest("offset must be 0 or positive"))
    ELSE None

QueryTableValidate(a) ==
    IF ~Truthy(a.tableName)
    THEN Some(InvalidRequest("tableName is required and must be a string"))
    ELSE IF IsSome(a.limit) /\ (Val(a.limit) <= 0 \/ Val(a.limit) > MaxPageSize)
    THEN Some(InvalidRequest("limit must be between 1 and 100 (BaseQL maximum)"))
    ELSE IF IsSome(a.offset) /\ Val(a.offset) < 0
    THEN Some(InvalidRequest("offset must be 0 or positive"))
    ELSE IF BadSortItems(a.sort) # <<>>
    THEN Some(McpError("InvalidRequest", "", "Invalid sort direction",
                       Val(BadSortItems(a.sort)[1].direction), ""))
    ELSE None

\* the separator of the fields of a selection: a line break and its indentation
Indent == <<"\n", " ", " ", " ", " ">>

\* a selection that always starts with id
FieldsSelectionWithId(fields) ==
    IF IsSome(fields) /\ Len(Val(fields)) > 0
    THEN Join(<<nId>> \o Val(fields), Indent)
    ELSE Join(<<nId, nTypename>>, Indent)

\* fields.join("\n    "), or "id\n    __typename"
FieldsSelection(fields) ==
    IF IsSome(fields) /\ Len(Val(fields)) > 0
    THEN Join(Val(fields), Indent)
    ELSE Join(<<nId, nTypename>>, Indent)

FilterStr(filter) == UnquoteKeys(JsonStringify(filter))

\* acc[k] = v on an object given as its entries in insertion order
ObjSet(obj, k, v) ==
    IF \E i \in 1..Len(obj) : obj[i].k = k
    THEN [i \in 1..Len(obj) |-> IF obj[i].k = k THEN Entry(k, v) ELSE obj[i]]
    ELSE Append(obj, Entry(k, v))

RECURSIVE OrderByFrom(_, _)
OrderByFrom(acc, sort) ==
    IF sort = <<>> THEN acc
    ELSE OrderByFrom(
             ObjSet(acc, Head(sort).field,
                    IF TruthyChars(Head(sort).direction)
                    THEN Val(Head(sort).direction) ELSE asc),
             Tail(sort))

\* sort.reduce((acc, s) => { acc[s.field] = s.direction || "asc"; ... }, {})
OrderBy(sort) == OrderByFrom(<<>>, sort)

OrderByStr(sort) ==
    UnquoteKeys(JsonStringify(
        [i \in 1..Len(OrderBy(sort)) |->
            [k |-> OrderBy(sort)[i].k, v |-> JStr(OrderBy(sort)[i].v)]]))

PageSize(limit) ==
    IF IsSome(limit) /\ Val(limit) # 0 THEN Val(limit) ELSE MaxPageSize

\* the page counted from 0
PageZeroBased(limit, offset) == Val(offset) \div PageSize(limit)

Page(limit, offset) == (Val(offset) \div PageSize(limit)) + 1

QueryTableArgsList(a) ==
    (IF IsSome(a.filter) /\ Len(Val(a.filter)) > 0
     THEN <<Fragment("_filter", FilterStr(Val(a.filter)))>> ELSE <<>>)
    \o (IF IsSome(a.sort) /\ Len(Val(a.sort)) > 0
        THEN <<Fragment("_order_by", OrderByStr(Val(a.sort)))>> ELSE <<>>)
    \o (IF IsSome(a.limit)
        THEN <<Fragment("_page_size", NumChars(Val(a.limit)))>> ELSE <<>>)
    \o (IF IsSome(a.offset)
        THEN <<Fragment("_page", NumChars(Page(a.limit, a.offset)))>> ELSE <<>>)

\* the characters of a fragment's name
NameChars(name) ==
    CASE name = "_filter" -> <<"_", "f", "i", "l", "t", "e", "r">>
      [] name = "_order_by" -> <<"_", "o", "r", "d", "e", "r", "_", "b", "y">>
      [] name = "_page_size" -> <<"_", "p", "a", "g", "e", "_", "s", "i", "z", "e">>
      [] name = "_page" -> <<"_", "p", "a", "g", "e">>

\* `_filter: ${filterStr}` and the like: what args.push is given
FragmentText(f) == NameChars(f.name) \o <<":", " ">> \o f.text

\* an argument string that keeps its parentheses around nothing
ArgsStringAlwaysWrapped(argsList) ==
    <<"(">> \o Join([i \in 1..Len(argsList) |-> FragmentText(argsList[i])], <<",", " ">>)
    \o <<")">>

\* args.length > 0 ? `(${args.join(', ')})` : ''
ArgsString(argsList) ==
    IF Len(argsList) > 0
    THEN <<"(">>
         \o Join([i \in 1..Len(argsList) |-> FragmentText(argsList[i])], <<",", " ">>)
         \o <<")">>
    ELSE <<>>

\* the query text: ${tableName}${argsString} { ${fieldsSelection} }
QueryTableQuery(a) ==
    [op |-> "QueryTable", table |-> a.tableName, argsList |-> QueryTableArgsList(a),
     fields |-> FieldsSelection(a.fields),
     argsString |-> ArgsString(QueryTableArgsList(a))]

\* hints looked for from the last to the first
QueryTableHintLastFirst(error) ==
    IF ErrorIncludes(error, "Cannot query field")
    THEN ". Field may not exist - use getTableSchema to see available fields."
    ELSE IF ErrorIncludes(error, "Unknown argument")
    THEN ". BaseQL uses _filter, _page_size, _page, _order_by instead of standard GraphQL arguments."
    ELSE IF ErrorIncludes(error, "Unknown type Int")
    THEN ". BaseQL uses Float instead of Int for numbers."
    ELSE ""

\* the catch block of queryTable, for a value thrown by the upstream client
QueryTableHint(error) ==
    IF ErrorIncludes(error, "Unknown type Int")
    THEN ". BaseQL uses Float instead of Int for numbers."
    ELSE IF ErrorIncludes(error, "Unknown argument")
    THEN ". BaseQL uses _filter, _page_size, _page, _order_by instead of standard GraphQL arguments."
    ELSE IF ErrorIncludes(error, "Cannot query field")
    THEN ". Field may not exist - use getTableSchema to see available fields."
    ELSE ""

QueryTableCatch(error) ==
    McpError("InternalError", "Failed to query table: ", ErrorMessage(error), <<>>,
             QueryTableHint(error))

(***************************************************************************)
(* getTableSchema.                                                         *)
(***************************************************************************)
GetTableSchemaValidate(a) ==
    IF ~Truthy(a.tableName)
    THEN Some(InvalidRequest("tableName is required and must be a string. Use listTables to see available table names."))
    ELSE None

GetTableSchemaQuery(a) == Query("GetTableSchema", a.tableName, <<>>, <<>>)

\* the catch block of getTableSchema: every thrown value is wrapped
GetTableSchemaCatch(error) ==
    McpError("InternalError", "Failed to get table schema: ", ErrorMessage(error),
             <<>>, "")

(***************************************************************************)
(* getFieldOptions.  A record is kept as the value it holds for the field  *)
(* asked for: a JSON value, null, or nothing (undefined).                  *)
(***************************************************************************)
JNull == [t |-> "null", s |-> <<>>, n |-> 0, b |-> FALSE, l |-> <<>>]
JUndefined == [t |-> "undefined", s |-> <<>>, n |-> 0, b |-> FALSE, l |-> <<>>]

\* const { sampleSize = 100 } = args
SampleSizeOf(a) ==
    IF IsSome(a.sampleSize) THEN Val(a.sampleSize) ELSE DefaultSampleSize

GetFieldOptionsValidate(a) ==
    IF ~Truthy(a.tableName)
    THEN Some(InvalidRequest("tableName is required and must be a string"))
    ELSE IF ~TruthyChars(a.fieldName)
    THEN Some(InvalidRequest("fieldName is required and must be a string"))
    ELSE IF SampleSizeOf(a) # 0
            /\ (SampleSizeOf(a) <= 0 \/ SampleSizeOf(a) > MaxPageSize)
    THEN Some(InvalidRequest("sampleSize must be between 1 and 100 (BaseQL maximum)"))
    ELSE None

LimitedSampleSize(a) == Min(SampleSizeOf(a), MaxPageSize)

GetFieldOptionsQuery(a) ==
    Query("GetFieldOptions", a.tableName,
          <<Fragment("_page_size", NumChars(LimitedSampleSize(a)))>>,
          Val(a.fieldName))

\* String(v)
StringOf(v) ==
    CASE v.t = "string" -> v.s
      [] v.t = "number" -> NumChars(v.n)
      [] v.t = "boolean" -> (IF v.b THEN <<"t", "r", "u", "e">>
                             ELSE <<"f", "a", "l", "s", "e">>)
      [] v.t = "null" -> <<"n", "u", "l", "l">>

\* if (item)
ItemTruthy(v) ==
    CASE v.t = "string" -> v.s # <<>>
      [] v.t = "number" -> v.n # 0
      [] v.t = "boolean" -> v.b
      [] OTHER -> FALSE

\* a list that takes a new entry for every occurrence of a key
MapIncrementAppend(m, key) == Append(m, [value |-> key, count |-> 1])

\* a Map that notes a key once and does not count its further occurrences
MapIncrementOnce(m, key) ==
    IF \E i \in 1..Len(m) : m[i].value = key THEN m
    ELSE Append(m, [value |-> key, count |-> 1])

\* valueCounts.set(key, (valueCounts.get(key) || 0) + 1), the Map being its
\* entries in insertion order
MapIncrement(m, key) ==
    IF \E i \in 1..Len(m) : m[i].value = key
    THEN [i \in 1..Len(m) |->
            IF m[i].value = key THEN [value |-> key, count |-> m[i].count + 1]
            ELSE m[i]]
    ELSE Append(m, [value |-> key, count |-> 1])

RECURSIVE CountItems(_, _)
CountItems(m, items) ==
    IF items = <<>> THEN m
    ELSE CountItems(IF ItemTruthy(Head(items))
                    THEN MapIncrement(m, StringOf(Head(items))) ELSE m,
                    Tail(items))

\* the counting loop over the records, from the counts c so far
RECURSIVE CountRecords(_, _)
CountRecords(c, records) ==
    IF records = <<>> THEN c
    ELSE LET value == Head(records)
         IN  CountRecords(
                 IF value.t \in {"null", "undefined"}
                 THEN [c EXCEPT !.nullCount = @ + 1]
                 ELSE IF value.t = "array"
                 THEN [c EXCEPT !.valueCounts = CountItems(@, value.l)]
                 ELSE [c EXCEPT !.valueCounts = MapIncrement(@, StringOf(value))],
                 Tail(records))

Counts(records) == CountRecords([valueCounts |-> <<>>, nullCount |-> 0], records)

\* e put behind the entries whose count is not smaller
RECURSIVE InsertByCount(_, _)
InsertByCount(sorted, e) ==
    IF sorted = <<>> THEN <<e>>
    ELSE IF Head(sorted).count >= e.count
    THEN <<Head(sorted)>> \o InsertByCount(Tail(sorted), e)
    ELSE <<e>> \o sorted

\* entries.sort((a, b) => b[1] - a[1]): by count, descending, stable
RECURSIVE SortByCount(_)
SortByCount(entries) ==
    IF entries = <<>> THEN <<>>
    ELSE InsertByCount(SortByCount(SubSeq(entries, 1, Len(entries) - 1)),
                       entries[Len(entries)])

\* a flag raised only by an array that holds something
IsMultiSelectByElements(records) ==
    \E i \in 1..Len(records) : records[i].t = "array" /\ records[i].l # <<>>

\* records.some(r => Array.isArray(r[fieldName]))
IsMultiSelect(records) == \E i \in 1..Len(records) : records[i].t = "array"

\* a continuation that takes the lack of records for a failure
GetFieldOptionsResultNoEmpty(a, records) ==
    IF ~IsSome(records) \/ Len(Val(records)) = 0
    THEN McpError("InternalError", "Failed to get field options: ", "No records found in table", <<>>, "")
    ELSE Content([tableName |-> Val(a.tableName), fieldName |-> Val(a.fieldName),
                  sampleSize |-> Len(Val(records)), totalUnique |-> 0, nullCount |-> 0,
                  values |-> <<>>, isMultiSelect |-> FALSE, note |-> ""])

\* the continuation of getFieldOptions, records being data[tableName]
GetFieldOptionsResult(a, records) ==
    IF ~IsSome(records) \/ Len(Val(records)) = 0
    THEN Content([tableName |-> Val(a.tableName), fieldName |-> Val(a.fieldName),
                  sampleSize |-> 0, totalUnique |-> 0, values |-> <<>>,
                  note |-> "No records found in table"])
    ELSE LET c == Counts(Val(records))
             sortedValues == SortByCount(c.valueCounts)
         IN  Content([tableName |-> Val(a.tableName), fieldName |-> Val(a.fieldName),
                      sampleSize |-> Len(Val(records)),
                      totalUnique |-> Len(sortedValues),
                      nullCount |-> c.nullCount,
                      values |-> sortedValues,
                      isMultiSelect |-> IsMultiSelect(Val(records)),
                      note |-> "Values discovered from existing data. Some options may not appear if they are not currently used in any records."])

\* the catch block of getFieldOptions: every thrown value is wrapped
GetFieldOptionsCatch(error) ==
    McpError("InternalError", "Failed to get field options: ", ErrorMessage(error),
             <<>>, "")

(***************************************************************************)
(* searchTable.                                                            *)
(***************************************************************************)
\* const { limit = 10 } = args
SearchLimitOf(a) == IF IsSome(a.limit) THEN Val(a.limit) ELSE DefaultSearchLimit

SearchSchemaQuery(a) == Query("GetTableSchema", a.tableName, <<>>, <<>>)

\* schemaData.__type?.fields || []
TableFields(schemaData) == IF IsSome(schemaData) THEN Val(schemaData) ELSE <<>>

\* a test that takes every scalar field for a text field
IsScalar(tableFields, field) ==
    \E i \in 1..Len(tableFields) :
        /\ tableFields[i].name = field
        /\ tableFields[i].type.kind = "SCALAR"

IsStringScalar(tableFields, field) ==
    \E i \in 1..Len(tableFields) :
        /\ tableFields[i].name = field
        /\ tableFields[i].type.kind = "SCALAR"
        /\ tableFields[i].type.name = Some("String")

CommonFields == <<nFirstName, nLastName, nFullName, nEmail, nName, nTitle>>

FieldsToSearchWithFallback(a, tableFields) ==
    LET chosen == SelectSeq(IF IsSome(a.fields) THEN Val(a.fields) ELSE <<>>,
                            LAMBDA field : IsStringScalar(tableFields, field))
    IN  IF Len(chosen) > 0 THEN chosen
        ELSE SelectSeq(CommonFields, LAMBDA field : IsStringScalar(tableFields, field))

FieldsToSearch(a, tableFields) ==
    SelectSeq(IF IsSome(a.fields) /\ Len(Val(a.fields)) > 0
              THEN Val(a.fields) ELSE CommonFields,
              LAMBDA field : IsStringScalar(tableFields, field))

NoSearchableFields ==
    InvalidRequest("No searchable text fields found in table. Please specify valid string fields to search.")

\* a page size that is the limit, whatever it is
LimitedSizeUncapped(a) == SearchLimitOf(a)

LimitedSize(a) == Min(SearchLimitOf(a), MaxPageSize)

SearchTableQuery(a, fieldsToSearch) ==
    Query("SearchTable", a.tableName,
          <<Fragment("_filter",
                     FilterStr(<<Entry(fieldsToSearch[1], JStr(a.searchTerm))>>)),
            Fragment("_page_size", NumChars(LimitedSize(a)))>>,
          Join(<<nId>> \o SubSeq(fieldsToSearch, 1, Min(MaxResultFields, Len(fieldsToSearch))),
               Indent))

SearchTableResult(a, fieldsToSearch, data) ==
    Content([searchTerm |-> a.searchTerm, fieldsSearched |-> fieldsToSearch,
             primarySearchField |-> fieldsToSearch[1], limit |-> LimitedSize(a),
             results |-> data])

\* the catch block of searchTable, for a value thrown by the upstream client
SearchTableCatch(error) ==
    McpError("InternalError", "Failed to search table: ", ErrorMessage(error), <<>>, "")

(***************************************************************************)
(* Construction of the client.                                             *)
(***************************************************************************)
Bearer == <<"B", "e", "a", "r", "e", "r", " ">>

\* s.startsWith(prefix)
StartsWithPrefix(s, prefix) ==
    Len(s) >= Len(prefix) /\ SubSeq(s, 1, Len(prefix)) = prefix

\* a header that always gets the prefix
AuthorizationAlwaysPrefixed(apiKey) == Bearer \o apiKey

\* the Authorization header
Authorization(apiKey) ==
    IF StartsWithPrefix(apiKey, Bearer) THEN apiKey ELSE Bearer \o apiKey

\* a client made whatever the environment holds
InitializeGraphQLClientAnyway(c) ==
    Some([url |-> c.endpoint, Authorization |-> Authorization(c.apiKey)])

\* initializeGraphQLClient(): the client, or null without an endpoint or a key
InitializeGraphQLClient(c) ==
    IF c.endpoint # "" /\ c.apiKey # <<>>
    THEN Some([url |-> c.endpoint, Authorization |-> Authorization(c.apiKey)])
    ELSE None

(***************************************************************************)
(* The client check, query, listTables, the default branch, and the read   *)
(* of the schema resource.                                                 *)
(***************************************************************************)
NotConfigured ==
    InvalidRequest("BaseQL endpoint not configured. Please set BASEQL_API_ENDPOINT and BASEQL_API_KEY environment variables.")

\* case "query": the caller's text and variables go to the client as they are
CustomQuery(a) ==
    [op |-> "custom", table |-> None, argsList |-> <<>>, fields |-> <<>>,
     text |-> a.query, variables |-> a.variables]

\* a catch block that drops the message of what it caught
QueryCatchNoMessage(error) ==
    McpError("InternalError", "GraphQL query failed: ", "Unknown error", <<>>, "")

QueryCatch(error) ==
    McpError("InternalError", "GraphQL query failed: ", ErrorMessage(error), <<>>, "")

ListTablesQuery == Query("ListTables", None, <<>>, <<>>)

RootTypeNames ==
    { <<"Q", "u", "e", "r", "y">>, <<"M", "u", "t", "a", "t", "i", "o", "n">>,
      <<"S", "u", "b", "s", "c", "r", "i", "p", "t", "i", "o", "n">> }

\* a filter that keeps the types of every kind
IsTableOfAnyKind(type) ==
    /\ ~StartsWithPrefix(type.name, <<"_", "_">>)
    /\ type.name \notin RootTypeNames

\* the filter of listTables
IsTable(type) ==
    /\ type.kind = "OBJECT"
    /\ ~StartsWithPrefix(type.name, <<"_", "_">>)
    /\ type.name \notin RootTypeNames

\* type.description || "No description available"
DescriptionOf(type) ==
    IF IsSome(type.description) /\ Val(type.description) # ""
    THEN Val(type.description) ELSE "No description available"

RECURSIVE MapTables(_)
MapTables(types) ==
    IF types = <<>> THEN <<>>
    ELSE <<[name |-> Head(types).name, description |-> DescriptionOf(Head(types))]>>
         \o MapTables(Tail(types))

\* data.__schema.types.filter(...).map(...)
Tables(types) == MapTables(SelectSeq(types, IsTable))

\* what reading data.__schema.types throws when __schema is null
TypeErrorOfNull ==
    [isError |-> TRUE, message |-> "Cannot read properties of null (reading 'types')",
     includes |-> {}]

ListTablesCatch(error) ==
    McpError("InternalError", "Failed to list tables: ", ErrorMessage(error), <<>>, "")

\* the continuation of listTables, schema being data.__schema
ListTablesResult(schema) ==
    IF IsSome(schema) THEN Content(Tables(Val(schema)))
    ELSE ListTablesCatch(TypeErrorOfNull)

\* a default branch that does not say which name it met
UnknownToolUnnamed(name) == McpError("MethodNotFound", "Unknown tool", "", <<>>, "")

UnknownTool(name) == McpError("MethodNotFound", "Unknown tool: ", name, <<>>, "")

SchemaUri == "baseql://schema"

IntrospectionQuery == Query("IntrospectionQuery", None, <<>>, <<>>)

ReadResourceCatch(error) ==
    McpError("InternalError", "Failed to fetch schema: ", ErrorMessage(error), <<>>, "")

\* an error that does not say which uri it met
UnknownResourceUnnamed(uri) == McpError("InvalidRequest", "Unknown resource", "", <<>>, "")

UnknownResource(uri) == McpError("InvalidRequest", "Unknown resource: ", uri, <<>>, "")

\* the resources ListResources answers with
Resources ==
    << [uri |-> SchemaUri, name |-> "BaseQL Schema",
        description |-> "GraphQL schema information from your BaseQL endpoint",
        mimeType |-> "application/json"] >>

\* JSON.stringify(data, null, 2): the text that is data serialised with an
\* indentation of two
StringifyIndented(data) == [stringified |-> data, indent |-> 2]

\* the contents ReadResource returns for uri
ResourceContents(uri, data) ==
    Content(<< [uri |-> uri, mimeType |-> "application/json",
                text |-> StringifyIndented(data)] >>)

(***************************************************************************)
(* The requests the model sends, and what the upstream answers.            *)
(***************************************************************************)
RECURSIVE SeqsUpTo(_, _)
SeqsUpTo(S, n) ==
    IF n = 0 THEN {<<>>}
    ELSE LET shorter == SeqsUpTo(S, n - 1)
         IN  shorter \cup {Append(q, x) : q \in shorter, x \in S}

Opt(S) == {None} \cup {Some(x) : x \in S}

TableNames == {None, Some(""), Some("contacts")}

SortDirections == {None, Some(asc), Some(desc), Some(<<"A", "S", "C">>), Some(<<>>)}
SortItems == [field : {nName, nAge}, direction : SortDirections]

Limits == Opt({0, 10, 100, 101})
Offsets == Opt({-1, 0, 25, 250})

kType == <<"t", "y", "p", "e">>
sX == <<"x">>
sColonY == <<":", "y">>

Filters ==
    { None,
      Some(<<>>),
      Some(<<Entry(kType, JStr(sX))>>),
      Some(<<Entry(kType, JStr(sX)), Entry(nAge, JNum(7))>>),
      Some(<<Entry(kType, JList(<<JStr(sX), JStr(sColonY)>>))>>),
      Some(<<Entry(<<"a", " ", "b">>, JNum(7))>>),
      Some(<<Entry(<<"a", Quote>>, JBool(TRUE))>>),
      Some(<<Entry(<<"a", ":">>, JStr(sX))>>),
      Some(<<Entry(<<"a", "{">>, JStr(sX))>>) }

FieldLists == {None, Some(<<>>), Some(<<nEmail>>), Some(<<nName, nEmail>>)}

\* every argument varied together with sort lists of at most one item, and the
\* longer sort lists with every limit and offset
QueryTableRequests ==
    [tableName : {Some(""), Some("contacts")}, fields : FieldLists, filter : Filters,
     sort : Opt(SeqsUpTo(SortItems, 1)), limit : Limits, offset : Offsets]
    \cup
    [tableName : {Some("contacts")}, fields : {None}, filter : {None},
     sort : Opt(SeqsUpTo(SortItems, MaxSortLen)), limit : Limits, offset : Offsets]

GetTableSchemaRequests == [tableName : TableNames]

GetFieldOptionsRequests ==
    [tableName : TableNames, fieldName : {None, Some(<<>>), Some(nStatus)},
     sampleSize : Opt({-1, 0, 50, 101})]

sA == <<"A">>
sB == <<"B">>

\* the values a sampled record holds for the field
FieldValues ==
    { JNull, JUndefined, JStr(sA), JStr(sB), JNum(0),
      JList(<<JStr(sA), JStr(sB)>>), JList(<<JStr(sA)>>), JList(<<>>),
      JList(<<JNum(0), JBool(FALSE), JStr(<<>>), JStr(sA)>>) }

\* data[tableName]: no such key, or the records
RecordLists == Opt(SeqsUpTo(FieldValues, MaxRecords))

SearchTableRequests ==
    [tableName : {Some("contacts")}, searchTerm : {sX, <<"a", Quote, ":">>},
     fields : Opt(SeqsUpTo({nName, nEmail, nNotes}, MaxSearchFields)),
     limit : Opt({-1, 5, 100, 250})]

FieldTypes ==
    { [kind |-> "SCALAR", name |-> Some("String")],
      [kind |-> "SCALAR", name |-> Some("Float")],
      [kind |-> "OBJECT", name |-> Some("String")],
      [kind |-> "LIST", name |-> None] }

\* the introspected fields of a table: some of name, email and notes, each of a type
Absent == [kind |-> "absent", name |-> None]

SchemaFieldLists ==
    { SelectSeq([i \in 1..3 |-> [name |-> <<nName, nEmail, nNotes>>[i], type |-> f[i]]],
                LAMBDA d : d.type # Absent) :
        f \in [1..3 -> FieldTypes \cup {Absent}] }

\* schemaData.__type: null, or a type with its fields
SchemaData == Opt(SchemaFieldLists)

QueryData == {"data"}

ToolNames ==
    {"query", "getTableSchema", "listTables", "queryTable", "searchTable", "getFieldOptions"}

\* names that are no tool's
OtherToolNames == {"", "deleteTable", "QueryTable", "listtables"}

Uris == {SchemaUri, "baseql://tables", "baseql://schema/", "BASEQL://SCHEMA", ""}

\* what the upstream answers the introspection of the schema resource with
IntrospectionPayloads == {"{__schema: {types: []}}", "{__schema: {types: [Contacts]}}"}

QueryRequests ==
    [query : {"{ contacts { id } }", "query Q($n: Int) { contacts(_page_size: $n) { id } }"},
     variables : {None, Some("{n: 5}")}]

tContacts == <<"C", "o", "n", "t", "a", "c", "t", "s">>
tTasks == <<"T", "a", "s", "k", "s">>

Type(name, kind, description) == [name |-> name, kind |-> kind, description |-> description]

\* the types an introspection answers with
IntrospectedTypes ==
    { Type(tContacts, "OBJECT", Some("People")),
      Type(tTasks, "OBJECT", None),
      Type(<<"N", "o", "t", "e", "s">>, "OBJECT", Some("")),
      Type(<<"Q", "u", "e", "r", "y">>, "OBJECT", None),
      Type(<<"M", "u", "t", "a", "t", "i", "o", "n">>, "OBJECT", Some("")),
      Type(<<"S", "u", "b", "s", "c", "r", "i", "p", "t", "i", "o", "n">>, "OBJECT", None),
      Type(<<"_", "_", "S", "c", "h", "e", "m", "a">>, "OBJECT", Some("meta")),
      Type(<<"_", "M", "e", "t", "a">>, "OBJECT", None),
      Type(<<"q", "u", "e", "r", "y">>, "OBJECT", Some("lower case")),
      Type(<<"S", "t", "r", "i", "n", "g">>, "SCALAR", Some("text")),
      Type(<<"S", "t", "a", "t", "u", "s">>, "ENUM", None) }

\* data.__schema: null, or the types
SchemaTypes == Opt(SeqsUpTo(IntrospectedTypes, MaxTypes))

\* what the upstream client throws where the message is not looked into
TransportErrors ==
    { UpstreamError("socket hang up", {}),
      [isError |-> FALSE, message |-> "", includes |-> {}] }

(***************************************************************************)
(* The environments the program is started in.                             *)
(***************************************************************************)
Endpoints == {"", "https://api.baseql.com/airtable/x"}

\* the entry point run and the environment it finds; the legacy entry point is
\* followed further only where it is left without a client
Deployments ==
    [entry : {"BaseQLMCPServer"}, endpoint : Endpoints, apiKey : {<<>>, <<"k">>}]
    \cup { [entry |-> "legacy", endpoint |-> "", apiKey |-> <<"k">>],
           [entry |-> "legacy", endpoint |-> "https://api.baseql.com/airtable/x",
            apiKey |-> <<>>] }

KeyTokens ==
    { Bearer, <<"B", "e", "a", "r", "e", "r">>, <<"b", "e", "a", "r", "e", "r", " ">>,
      <<"k">>, <<" ">> }

RECURSIVE Concat(_)
Concat(ss) == IF ss = <<>> THEN <<>> ELSE Head(ss) \o Concat(Tail(ss))

ApiKeys == {Concat(q) : q \in SeqsUpTo(KeyTokens, MaxKeyTokens)}

\* every entry point with every environment
AllDeployments ==
    [entry : {"BaseQLMCPServer", "legacy"}, endpoint : Endpoints, apiKey : ApiKeys]

(***************************************************************************)
(* The state machine.                                                      *)
(***************************************************************************)
\* what the handler in hand holds of the upstream's answers: the schema answer
\* and the fields chosen from it (searchTable), the records (getFieldOptions),
\* the types (listTables), the payload (schema resource), the value the upstream
\* client has thrown; None is
\* an answer not yet had
NoLocal ==
    [schemaData |-> None, fieldsToSearch |-> <<>>, records |-> None, types |-> None,
     data |-> None, error |-> None]

\* catch (error), the upstream client having thrown
Caught(error) == local' = [local EXCEPT !.error = Some(error)]

\* the program starts: nothing is constructed yet
StartsAs(deployments) ==
    /\ config \in deployments
    /\ graphqlClient = None
    /\ pc = "new"
    /\ req = NoReq
    /\ sent = <<>>
    /\ local = NoLocal
    /\ result = NoResult
    /\ calls = <<>>

Init == StartsAs(Deployments)

\* new BaseQLMCPServer(): the constructor throws without an endpoint or a key
ConstructBaseQLMCPServer ==
    /\ pc = "new"
    /\ config.entry = "BaseQLMCPServer"
    /\ IF config.endpoint = "" \/ config.apiKey = <<>>
       THEN pc' = "failed" /\ graphqlClient' = graphqlClient
       ELSE pc' = "idle" /\ graphqlClient' = InitializeGraphQLClient(config)
    /\ UNCHANGED <<calls, config, req, sent, local, result>>

\* new BaseQLMCPServer() of the legacy entry point: never throws
ConstructLegacy ==
    /\ pc = "new"
    /\ config.entry = "legacy"
    /\ pc' = "idle"
    /\ graphqlClient' = InitializeGraphQLClient(config)
    /\ UNCHANGED <<calls, config, req, sent, local, result>>

\* the handler returns r, or throws it: the response is ready
Respond(r) ==
    /\ pc' = "done"
    /\ result' = r

\* a request issued a second time
RequestTwice(q, at) ==
    /\ pc' = at
    /\ sent' = Append(Append(sent, q), q)
    /\ result' = result

\* await this.graphqlClient.request(q)
Request(q, at) ==
    /\ pc' = at
    /\ sent' = Append(sent, q)
    /\ result' = result

\* the server is idle and has its upstream client: a tool call can be handled
Ready == pc = "idle" /\ IsSome(graphqlClient)

\* the upstream request the handler of tool awaits at pc = at has been answered
Awaiting(tool, at) == pc = at /\ req.tool = tool

\* case "queryTable"; a validation error is thrown again by the catch block
CallQueryTable ==
    /\ Ready
    /\ \E a \in QueryTableRequests :
          /\ req' = [tool |-> "queryTable", args |-> a]
          /\ IF IsSome(QueryTableValidate(a))
             THEN Respond(Val(QueryTableValidate(a))) /\ sent' = sent
             ELSE Request(QueryTableQuery(a), "await")
    /\ UNCHANGED <<calls, config, graphqlClient, local>>

QueryTableResolved ==
    /\ Awaiting("queryTable", "await")
    /\ \E data \in QueryData : Respond(Content(data))
    /\ UNCHANGED <<calls, config, graphqlClient, req, sent, local>>

QueryTableRejected ==
    /\ Awaiting("queryTable", "await")
    /\ \E error \in UpstreamErrors : Caught(error) /\ Respond(QueryTableCatch(error))
    /\ UNCHANGED <<calls, config, graphqlClient, req, sent>>

\* case "getTableSchema"; a validation error is caught by the catch block
CallGetTableSchema ==
    /\ Ready
    /\ \E a \in GetTableSchemaRequests :
          /\ req' = [tool |-> "getTableSchema", args |-> a]
          /\ IF IsSome(GetTableSchemaValidate(a))
             THEN /\ Respond(GetTableSchemaCatch(Thrown(Val(GetTableSchemaValidate(a)))))
                  /\ sent' = sent
             ELSE Request(GetTableSchemaQuery(a), "await")
    /\ UNCHANGED <<calls, config, graphqlClient, local>>

GetTableSchemaResolved ==
    /\ Awaiting("getTableSchema", "await")
    /\ \E data \in SchemaData : Respond(Content(data))
    /\ UNCHANGED <<calls, config, graphqlClient, req, sent, local>>

GetTableSchemaRejected ==
    /\ Awaiting("getTableSchema", "await")
    /\ \E error \in TransportErrors : Caught(error) /\ Respond(GetTableSchemaCatch(error))
    /\ UNCHANGED <<calls, config, graphqlClient, req, sent>>

\* case "getFieldOptions"; a validation error is caught by the catch block
CallGetFieldOptions ==
    /\ Ready
    /\ \E a \in GetFieldOptionsRequests :
          /\ req' = [tool |-> "getFieldOptions", args |-> a]
          /\ IF IsSome(GetFieldOptionsValidate(a))
             THEN /\ Respond(GetFieldOptionsCatch(Thrown(Val(GetFieldOptionsValidate(a)))))
                  /\ sent' = sent
             ELSE Request(GetFieldOptionsQuery(a), "await")
    /\ UNCHANGED <<calls, config, graphqlClient, local>>

GetFieldOptionsResolved ==
    /\ Awaiting("getFieldOptions", "await")
    /\ \E records \in RecordLists :
          /\ local' = [local EXCEPT !.records = Some(records)]
          /\ Respond(GetFieldOptionsResult(req.args, records))
    /\ UNCHANGED <<calls, config, graphqlClient, req, sent>>

GetFieldOptionsRejected ==
    /\ Awaiting("getFieldOptions", "await")
    /\ \E error \in TransportErrors : Caught(error) /\ Respond(GetFieldOptionsCatch(error))
    /\ UNCHANGED <<calls, config, graphqlClient, req, sent>>

\* case "searchTable", up to the await of the schema
CallSearchTable ==
    /\ Ready
    /\ \E a \in SearchTableRequests :
          /\ req' = [tool |-> "searchTable", args |-> a]
          /\ Request(SearchSchemaQuery(a), "awaitSchema")
    /\ UNCHANGED <<calls, config, graphqlClient, local>>

\* the schema has come: the fields to search are chosen, and the search is sent or
\* the lack of a field to search is thrown (and thrown again by the catch block)
SearchSchemaResolved ==
    /\ Awaiting("searchTable", "awaitSchema")
    /\ \E schemaData \in SchemaData :
          LET tableFields == TableFields(schemaData)
              fieldsToSearch == FieldsToSearch(req.args, tableFields)
          IN  /\ local' = [local EXCEPT !.schemaData = Some(schemaData),
                                        !.fieldsToSearch = fieldsToSearch]
              /\ IF Len(fieldsToSearch) = 0
                 THEN Respond(NoSearchableFields) /\ sent' = sent
                 ELSE Request(SearchTableQuery(req.args, fieldsToSearch), "await")
    /\ UNCHANGED <<calls, config, graphqlClient, req>>

SearchSchemaRejected ==
    /\ Awaiting("searchTable", "awaitSchema")
    /\ \E error \in TransportErrors : Caught(error) /\ Respond(SearchTableCatch(error))
    /\ UNCHANGED <<calls, config, graphqlClient, req, sent>>

SearchTableResolved ==
    /\ Awaiting("searchTable", "await")
    /\ \E data \in QueryData :
          Respond(SearchTableResult(req.args, local.fieldsToSearch, data))
    /\ UNCHANGED <<calls, config, graphqlClient, req, sent, local>>

SearchTableRejected ==
    /\ Awaiting("searchTable", "await")
    /\ \E error \in TransportErrors : Caught(error) /\ Respond(SearchTableCatch(error))
    /\ UNCHANGED <<calls, config, graphqlClient, req, sent>>

\* a tool call at a server without a client: the check before the dispatch
CallToolNotConfigured ==
    /\ pc = "idle"
    /\ ~IsSome(graphqlClient)
    /\ \E name \in ToolNames \cup OtherToolNames :
          /\ req' = [tool |-> name, args |-> <<>>]
          /\ Respond(NotConfigured)
    /\ UNCHANGED <<calls, config, graphqlClient, sent, local>>

\* default: the name is no tool's
CallUnknownTool ==
    /\ Ready
    /\ \E name \in OtherToolNames :
          /\ req' = [tool |-> name, args |-> <<>>]
          /\ Respond(UnknownTool(name))
    /\ UNCHANGED <<calls, config, graphqlClient, sent, local>>

\* case "query"
CallQuery ==
    /\ Ready
    /\ \E a \in QueryRequests :
          /\ req' = [tool |-> "query", args |-> a]
          /\ Request(CustomQuery(a), "await")
    /\ UNCHANGED <<calls, config, graphqlClient, local>>

QueryResolved ==
    /\ Awaiting("query", "await")
    /\ \E data \in QueryData : Respond(Content(data))
    /\ UNCHANGED <<calls, config, graphqlClient, req, sent, local>>

QueryRejected ==
    /\ Awaiting("query", "await")
    /\ \E error \in TransportErrors : Caught(error) /\ Respond(QueryCatch(error))
    /\ UNCHANGED <<calls, config, graphqlClient, req, sent>>

\* case "listTables"
CallListTables ==
    /\ Ready
    /\ req' = [tool |-> "listTables", args |-> <<>>]
    /\ Request(ListTablesQuery, "await")
    /\ UNCHANGED <<calls, config, graphqlClient, local>>

ListTablesResolved ==
    /\ Awaiting("listTables", "await")
    /\ \E schema \in SchemaTypes :
          /\ local' = [local EXCEPT !.types = Some(schema)]
          /\ Respond(ListTablesResult(schema))
    /\ UNCHANGED <<calls, config, graphqlClient, req, sent>>

ListTablesRejected ==
    /\ Awaiting("listTables", "await")
    /\ \E error \in TransportErrors : Caught(error) /\ Respond(ListTablesCatch(error))
    /\ UNCHANGED <<calls, config, graphqlClient, req, sent>>

\* ListResources: the one resource, with or without a client
ListResources ==
    /\ pc = "idle"
    /\ req' = [tool |-> "resources/list", args |-> <<>>]
    /\ Respond(Content(Resources))
    /\ UNCHANGED <<calls, config, graphqlClient, sent, local>>

\* ReadResource of a uri that is not the schema's: no client is needed
ReadUnknownResource ==
    /\ pc = "idle"
    /\ \E uri \in Uris \ {SchemaUri} :
          /\ req' = [tool |-> "resources/read", args |-> [uri |-> uri]]
          /\ Respond(UnknownResource(uri))
    /\ UNCHANGED <<calls, config, graphqlClient, sent, local>>

\* ReadResource of the schema at a server without a client
ReadSchemaNotConfigured ==
    /\ pc = "idle"
    /\ ~IsSome(graphqlClient)
    /\ req' = [tool |-> "resources/read", args |-> [uri |-> SchemaUri]]
    /\ Respond(NotConfigured)
    /\ UNCHANGED <<calls, config, graphqlClient, sent, local>>

\* ReadResource of the schema, up to the await
ReadSchema ==
    /\ Ready
    /\ req' = [tool |-> "resources/read", args |-> [uri |-> SchemaUri]]
    /\ Request(IntrospectionQuery, "await")
    /\ UNCHANGED <<calls, config, graphqlClient, local>>

ReadSchemaResolved ==
    /\ Awaiting("resources/read", "await")
    /\ \E data \in IntrospectionPayloads :
          /\ local' = [local EXCEPT !.data = Some(data)]
          /\ Respond(ResourceContents(req.args.uri, data))
    /\ UNCHANGED <<calls, config, graphqlClient, req, sent>>

ReadSchemaRejected ==
    /\ Awaiting("resources/read", "await")
    /\ \E error \in TransportErrors : Caught(error) /\ Respond(ReadResourceCatch(error))
    /\ UNCHANGED <<calls, config, graphqlClient, req, sent>>

\* the response has been delivered; the server waits for the next request
Return ==
    /\ pc = "done"
    /\ pc' = "idle"
    /\ req' = NoReq
    /\ sent' = <<>>
    /\ local' = NoLocal
    /\ result' = NoResult
    /\ UNCHANGED <<calls, config, graphqlClient>>

Next ==
    \/ ConstructBaseQLMCPServer
    \/ ConstructLegacy
    \/ CallQueryTable
    \/ QueryTableResolved
    \/ QueryTableRejected
    \/ CallGetTableSchema
    \/ GetTableSchemaResolved
    \/ GetTableSchemaRejected
    \/ CallGetFieldOptions
    \/ GetFieldOptionsResolved
    \/ GetFieldOptionsRejected
    \/ CallSearchTable
    \/ SearchSchemaResolved
    \/ SearchSchemaRejected
    \/ SearchTableResolved
    \/ SearchTableRejected
    \/ CallToolNotConfigured
    \/ CallUnknownTool
    \/ CallQuery
    \/ QueryResolved
    \/ QueryRejected
    \/ CallListTables
    \/ ListTablesResolved
    \/ ListTablesRejected
    \/ ListResources
    \/ ReadUnknownResource
    \/ ReadSchemaNotConfigured
    \/ ReadSchema
    \/ ReadSchemaResolved
    \/ ReadSchemaRejected
    \/ Return

Spec == Init /\ [][Next]_vars

\* construction alone, over every entry point and environment
InitConfig == StartsAs(AllDeployments)

NextConfig == ConstructBaseQLMCPServer \/ ConstructLegacy

SpecConfig == InitConfig /\ [][NextConfig]_vars

(***************************************************************************)
(* Several tool calls in flight.  Every invocation of the handler has its  *)
(* own request and its own locals, held in calls[i]; the invocations share *)
(* the server's fields, of which the handler reads graphqlClient.  The     *)
(* handler's steps are those of the actions above, as functions of the     *)
(* invocation's state.                                                     *)
(***************************************************************************)
NoCall ==
    [tool |-> "none", args |-> <<>>, pc |-> "idle", sent |-> <<>>, local |-> NoLocal,
     result |-> NoResult, replies |-> <<>>]

\* the invocation awaits the answer to q at position at
Awaits(at, q) == [pc |-> at, sent |-> <<q>>, local |-> NoLocal, result |-> NoResult]

\* the invocation has returned or thrown r before any await
Answered(r) == [pc |-> "done", sent |-> <<>>, local |-> NoLocal, result |-> r]

\* the handler of tool on arguments a, up to its first await or its answer
Begin(tool, a) ==
    CASE tool = "query" -> Awaits("await", CustomQuery(a))
      [] tool = "getTableSchema" ->
            IF IsSome(GetTableSchemaValidate(a))
            THEN Answered(GetTableSchemaCatch(Thrown(Val(GetTableSchemaValidate(a)))))
            ELSE Awaits("await", GetTableSchemaQuery(a))
      [] tool = "listTables" -> Awaits("await", ListTablesQuery)
      [] tool = "queryTable" ->
            IF IsSome(QueryTableValidate(a)) THEN Answered(Val(QueryTableValidate(a)))
            ELSE Awaits("await", QueryTableQuery(a))
      [] tool = "searchTable" -> Awaits("awaitSchema", SearchSchemaQuery(a))
      [] tool = "getFieldOptions" ->
            IF IsSome(GetFieldOptionsValidate(a))
            THEN Answered(GetFieldOptionsCatch(Thrown(Val(GetFieldOptionsValidate(a)))))
            ELSE Awaits("await", GetFieldOptionsQuery(a))
      [] OTHER -> Answered(UnknownTool(tool))

\* the catch block of tool, for a value thrown by the upstream client
CatchOf(tool, error) ==
    CASE tool = "query" -> QueryCatch(error)
      [] tool = "getTableSchema" -> GetTableSchemaCatch(error)
      [] tool = "listTables" -> ListTablesCatch(error)
      [] tool = "queryTable" -> QueryTableCatch(error)
      [] tool = "searchTable" -> SearchTableCatch(error)
      [] tool = "getFieldOptions" -> GetFieldOptionsCatch(error)

\* the upstream's answer to a request: data, or an error thrown
Resolved(data) == [ok |-> TRUE, data |-> data, error |-> None]
Rejected(error) == [ok |-> FALSE, data |-> None, error |-> Some(error)]

\* the handler of tool on arguments a, in state c at an await, from the answer
\* reply to its next await or its answer
Resume(tool, a, c, reply) ==
    IF ~reply.ok
    THEN [c EXCEPT !.pc = "done", !.local.error = reply.error,
                   !.result = CatchOf(tool, Val(reply.error))]
    ELSE CASE tool = "searchTable" /\ c.pc = "awaitSchema" ->
                LET fieldsToSearch == FieldsToSearch(a, TableFields(reply.data))
                    held == [c.local EXCEPT !.schemaData = Some(reply.data),
                                            !.fieldsToSearch = fieldsToSearch]
                IN  IF Len(fieldsToSearch) = 0
                    THEN [c EXCEPT !.pc = "done", !.local = held,
                                   !.result = NoSearchableFields]
                    ELSE [c EXCEPT !.pc = "await", !.local = held,
                                   !.sent = Append(@, SearchTableQuery(a, fieldsToSearch))]
           [] tool = "searchTable" /\ c.pc = "await" ->
                [c EXCEPT !.pc = "done",
                          !.result = SearchTableResult(a, c.local.fieldsToSearch, reply.data)]
           [] tool = "getFieldOptions" ->
                [c EXCEPT !.pc = "done", !.local.records = Some(reply.data),
                          !.result = GetFieldOptionsResult(a, reply.data)]
           [] tool = "listTables" ->
                [c EXCEPT !.pc = "done", !.local.types = Some(reply.data),
                          !.result = ListTablesResult(reply.data)]
           [] OTHER -> [c EXCEPT !.pc = "done", !.result = Content(reply.data)]

\* the calls that are made while others are in flight
ConcurrentCalls ==
    { [tool |-> "query", args |-> [query |-> "{ contacts { id } }", variables |-> None]],
      [tool |-> "listTables", args |-> <<>>],
      [tool |-> "deleteTable", args |-> <<>>] }
    \cup {[tool |-> "getTableSchema", args |-> a] : a \in GetTableSchemaRequests}
    \cup {[tool |-> "queryTable", args |-> a] :
            a \in [tableName : {Some("contacts")}, fields : {None}, sort : {None},
                   filter : {None, Some(<<Entry(kType, JStr(sX))>>)},
                   limit : {Some(10), Some(101)}, offset : {None}]}
    \cup {[tool |-> "searchTable", args |-> a] :
            a \in [tableName : {Some("contacts")}, searchTerm : {sX},
                   fields : {None, Some(<<nNotes, nEmail>>)}, limit : {None}]}
    \cup {[tool |-> "getFieldOptions", args |-> a] :
            a \in [tableName : {Some("contacts")}, fieldName : {Some(nStatus)},
                   sampleSize : {None, Some(101)}]}

StringField(name) == [name |-> name, type |-> [kind |-> "SCALAR", name |-> Some("String")]]

\* the data the upstream may answer with to the request tool awaits at position at
ConcurrentData(tool, at) ==
    CASE tool = "searchTable" /\ at = "awaitSchema" ->
            {None, Some(<<StringField(nName)>>),
             Some(<<StringField(nName), StringField(nEmail)>>)}
      [] tool = "getFieldOptions" ->
            {None, Some(<<JStr(sA), JList(<<JStr(sA), JStr(sB)>>)>>)}
      [] tool = "listTables" ->
            {None, Some(<<Type(tContacts, "OBJECT", None),
                          Type(<<"Q", "u", "e", "r", "y">>, "OBJECT", None)>>)}
      [] OTHER -> QueryData

\* a handler that keeps its state in one place for all its invocations
InvocationShared(i) ==
    [pc |-> calls[1].pc, sent |-> calls[1].sent, local |-> calls[1].local,
     result |-> calls[1].result]

\* the state of invocation i: its position, its requests, its locals, its answer
Invocation(i) ==
    [pc |-> calls[i].pc, sent |-> calls[i].sent, local |-> calls[i].local,
     result |-> calls[i].result]

\* calls[i] with the handler's state c, after the upstream's answer reply if any
Stepped(i, c, replies) ==
    [calls[i] EXCEPT !.pc = c.pc, !.sent = c.sent, !.local = c.local,
                     !.result = c.result, !.replies = replies]

InitConcurrent ==
    StartsAs({[entry |-> "BaseQLMCPServer",
               endpoint |-> "https://api.baseql.com/airtable/x", apiKey |-> <<"k">>]})

\* the server, constructed, starts to serve calls: none is in flight
Serve ==
    /\ pc = "idle"
    /\ IsSome(graphqlClient)
    /\ calls = <<>>
    /\ calls' = [i \in 1..MaxCalls |-> NoCall]
    /\ UNCHANGED <<config, graphqlClient, pc, req, sent, local, result>>

\* a tool call arrives while others may be in flight: invocation i of the handler
\* runs up to its first await, or to its answer
Arrive(i) ==
    /\ calls # <<>>
    /\ calls[i] = NoCall
    /\ IsSome(graphqlClient)
    /\ \E call \in ConcurrentCalls :
          calls' = [calls EXCEPT ![i] =
                       [tool |-> call.tool, args |-> call.args]
                           @@ Stepped(i, Begin(call.tool, call.args), <<>>)]
    /\ UNCHANGED <<config, graphqlClient, pc, req, sent, local, result>>

\* the upstream answers the request invocation i awaits
UpstreamResolves(i) ==
    /\ calls # <<>>
    /\ calls[i].pc \in {"await", "awaitSchema"}
    /\ \E data \in ConcurrentData(calls[i].tool, calls[i].pc) :
          calls' = [calls EXCEPT ![i] =
                       Stepped(i, Resume(calls[i].tool, calls[i].args, Invocation(i),
                                         Resolved(data)),
                               Append(calls[i].replies, Resolved(data)))]
    /\ UNCHANGED <<config, graphqlClient, pc, req, sent, local, result>>

\* the request invocation i awaits throws
UpstreamRejects(i) ==
    /\ calls # <<>>
    /\ calls[i].pc \in {"await", "awaitSchema"}
    /\ \E error \in TransportErrors :
          calls' = [calls EXCEPT ![i] =
                       Stepped(i, Resume(calls[i].tool, calls[i].args, Invocation(i),
                                         Rejected(error)),
                               Append(calls[i].replies, Rejected(error)))]
    /\ UNCHANGED <<config, graphqlClient, pc, req, sent, local, result>>

\* the answer of invocation i is delivered
Deliver(i) ==
    /\ calls # <<>>
    /\ calls[i].pc = "done"
    /\ calls' = [calls EXCEPT ![i] = NoCall]
    /\ UNCHANGED <<config, graphqlClient, pc, req, sent, local, result>>

NextConcurrent ==
    \/ ConstructBaseQLMCPServer
    \/ Serve
    \/ \E i \in 1..MaxCalls : Arrive(i)
    \/ \E i \in 1..MaxCalls : UpstreamResolves(i)
    \/ \E i \in 1..MaxCalls : UpstreamRejects(i)
    \/ \E i \in 1..MaxCalls : Deliver(i)

SpecConcurrent == InitConcurrent /\ [][NextConcurrent]_vars

(***************************************************************************)
(* What the properties below are stated with: a parser of the upstream's   *)
(* object-literal syntax that accepts unquoted keys, and the reading of a  *)
(* number.  A parse is [ok, v, i]: whether it succeeded, the value, and    *)
(* the position that follows it.                                           *)
(***************************************************************************)
LowerCase ==
    {"a", "b", "c", "d", "e", "f", "g", "h", "i", "j", "k", "l", "m",
     "n", "o", "p", "q", "r", "s", "t", "u", "v", "w", "x", "y", "z"}
UpperCase ==
    {"A", "B", "C", "D", "E", "F", "G", "H", "I", "J", "K", "L", "M",
     "N", "O", "P", "Q", "R", "S", "T", "U", "V", "W", "X", "Y", "Z"}
DigitChars == {Digits[i] : i \in 1..10}
IdentifierStart == LowerCase \cup UpperCase \cup {"_"}
IdentifierChars == IdentifierStart \cup DigitChars

\* a valid bare identifier: /^[_A-Za-z][_0-9A-Za-z]*$/
IsIdentifier(k) ==
    /\ Len(k) > 0
    /\ k[1] \in IdentifierStart
    /\ \A i \in 1..Len(k) : k[i] \in IdentifierChars

DigitValue(c) == CHOOSE d \in 0..9 : Digits[d + 1] = c

RECURSIVE ParseNatFrom(_, _)
ParseNatFrom(acc, s) ==
    IF s = <<>> THEN acc ELSE ParseNatFrom(10 * acc + DigitValue(Head(s)), Tail(s))

ParseNat(s) == ParseNatFrom(0, s)

ParseFail == [ok |-> FALSE, v |-> <<>>, i |-> 0]
Parsed(v, i) == [ok |-> TRUE, v |-> v, i |-> i]
At(s, i) == IF i >= 1 /\ i <= Len(s) THEN s[i] ELSE ""

\* the rest of a quoted string, from position i, after the opening quote
RECURSIVE ParseStringBody(_, _, _)
ParseStringBody(s, i, acc) ==
    IF i > Len(s) THEN ParseFail
    ELSE IF s[i] = Quote THEN Parsed(acc, i + 1)
    ELSE IF s[i] = Backslash
    THEN IF At(s, i + 1) \in {Quote, Backslash}
         THEN ParseStringBody(s, i + 2, Append(acc, s[i + 1]))
         ELSE ParseFail
    ELSE ParseStringBody(s, i + 1, Append(acc, s[i]))

\* the end of the run of characters of S that starts at i
RECURSIVE RunEnd(_, _, _)
RunEnd(s, i, S) == IF At(s, i) \in S THEN RunEnd(s, i + 1, S) ELSE i

StartsWith(s, i, t) == SubSeq(s, i, i + Len(t) - 1) = t

ParseScalar(s, i) ==
    IF At(s, i) = Quote
    THEN LET p == ParseStringBody(s, i + 1, <<>>)
         IN  IF p.ok THEN Parsed(JStr(p.v), p.i) ELSE ParseFail
    ELSE IF At(s, i) \in DigitChars
    THEN LET j == RunEnd(s, i, DigitChars)
         IN  Parsed(JNum(ParseNat(SubSeq(s, i, j - 1))), j)
    ELSE IF At(s, i) = "-" /\ At(s, i + 1) \in DigitChars
    THEN LET j == RunEnd(s, i + 1, DigitChars)
         IN  Parsed(JNum(-ParseNat(SubSeq(s, i + 1, j - 1))), j)
    ELSE IF StartsWith(s, i, <<"t", "r", "u", "e">>) THEN Parsed(JBool(TRUE), i + 4)
    ELSE IF StartsWith(s, i, <<"f", "a", "l", "s", "e">>) THEN Parsed(JBool(FALSE), i + 5)
    ELSE ParseFail

\* the elements of a list, from position i, after "[" or ","
RECURSIVE ParseElements(_, _, _)
ParseElements(s, i, acc) ==
    LET p == ParseScalar(s, i)
    IN  IF ~p.ok THEN ParseFail
        ELSE IF At(s, p.i) = "," THEN ParseElements(s, p.i + 1, Append(acc, p.v))
        ELSE IF At(s, p.i) = "]" THEN Parsed(JList(Append(acc, p.v)), p.i + 1)
        ELSE ParseFail

ParseValue(s, i) ==
    IF At(s, i) = "["
    THEN IF At(s, i + 1) = "]" THEN Parsed(JList(<<>>), i + 2)
         ELSE ParseElements(s, i + 1, <<>>)
    ELSE ParseScalar(s, i)

\* a key: a quoted string, or a bare identifier
ParseKey(s, i) ==
    IF At(s, i) = Quote THEN ParseStringBody(s, i + 1, <<>>)
    ELSE IF At(s, i) \in IdentifierStart
    THEN LET j == RunEnd(s, i, IdentifierChars) IN Parsed(SubSeq(s, i, j - 1), j)
    ELSE ParseFail

\* the entries of an object, from position i, after "{" or ","
RECURSIVE ParseEntries(_, _, _)
ParseEntries(s, i, acc) ==
    LET k == ParseKey(s, i)
    IN  IF ~k.ok \/ At(s, k.i) # ":" THEN ParseFail
        ELSE LET v == ParseValue(s, k.i + 1)
             IN  IF ~v.ok THEN ParseFail
                 ELSE IF At(s, v.i) = ","
                 THEN ParseEntries(s, v.i + 1, Append(acc, Entry(k.v, v.v)))
                 ELSE IF At(s, v.i) = "}" /\ v.i = Len(s)
                 THEN Parsed(Append(acc, Entry(k.v, v.v)), v.i + 1)
                 ELSE ParseFail

\* the whole of s as an object literal
ParseObject(s) ==
    IF At(s, 1) # "{" THEN ParseFail
    ELSE IF s = <<"{", "}">> THEN Parsed(<<>>, 3)
    ELSE ParseEntries(s, 2, <<>>)

EntrySet(obj) == {obj[i] : i \in 1..Len(obj)}

FragmentsNamed(q, name) == SelectSeq(q.argsList, LAMBDA f : f.name = name)

SortOf(a) == IF IsSome(a.sort) THEN Val(a.sort) ELSE <<>>
FilterOf(a) == IF IsSome(a.filter) THEN Val(a.filter) ELSE <<>>

\* the request in hand is a queryTable request, and its handler has run
QueryTableHandled ==
    IsSome(graphqlClient) /\ req.tool = "queryTable" /\ pc \in {"await", "done"}

(***************************************************************************)
(* C1                                                                      *)
(***************************************************************************)
BadPagination(a) ==
    \/ IsSome(a.limit) /\ (Val(a.limit) <= 0 \/ Val(a.limit) > 100)
    \/ IsSome(a.offset) /\ Val(a.offset) < 0

\* C1: a queryTable request whose limit is present and <= 0 or > 100, or whose
\* offset is present and negative, ends in an InvalidRequest error that is not
\* wrapped as an upstream error, and no upstream request is issued for it.
C1_BadPaginationRejected ==
    (QueryTableHandled /\ BadPagination(req.args)) =>
        /\ pc = "done"
        /\ result.kind = "InvalidRequest"
        /\ result.prefix = ""
        /\ sent = <<>>

C1_Witness ==
    /\ QueryTableHandled
    /\ req.args.tableName = Some("contacts")
    /\ req.args.limit = Some(101)
    /\ req.args.offset = Some(0)
    /\ result.kind = "InvalidRequest"
    /\ sent = <<>>

(***************************************************************************)
(* C2                                                                      *)
(***************************************************************************)
\* C2: a queryTable request in which some sort item has a direction other than
\* exactly "asc" or "desc" (any other string, the empty string included) ends in
\* an InvalidRequest error, and no upstream request is issued for it.
C2_BadDirectionRejected ==
    (/\ QueryTableHandled
     /\ \E i \in 1..Len(SortOf(req.args)) :
           /\ IsSome(SortOf(req.args)[i].direction)
           /\ Val(SortOf(req.args)[i].direction) \notin {asc, desc}) =>
        /\ pc = "done"
        /\ result.kind = "InvalidRequest"
        /\ sent = <<>>

(***************************************************************************)
(* C6                                                                      *)
(***************************************************************************)
NonIdentifierKeys(filter) ==
    {filter[i].k : i \in {j \in 1..Len(filter) : ~IsIdentifier(filter[j].k)}}

PassesQueryTableChecks(a) ==
    /\ IsSome(a.tableName) /\ Val(a.tableName) # ""
    /\ ~BadPagination(a)
    /\ \A i \in 1..Len(SortOf(a)) :
          SortOf(a)[i].direction \in {None, Some(<<>>), Some(asc), Some(desc)}

C7_FilterRoundTrip ==
    (/\ QueryTableHandled
     /\ sent # <<>>
     /\ FilterOf(req.args) # <<>>
     /\ NonIdentifierKeys(FilterOf(req.args)) = {}) =>
        LET fragments == FragmentsNamed(sent[1], "_filter")
        IN  /\ Len(fragments) = 1
            /\ ParseObject(fragments[1].text).ok
            /\ EntrySet(ParseObject(fragments[1].text).v) = EntrySet(FilterOf(req.args))

LastIndexOf(sort, field) ==
    CHOOSE i \in 1..Len(sort) :
        /\ sort[i].field = field
        /\ \A j \in (i + 1)..Len(sort) : sort[j].field # field

\* C9: for an accepted sort list, the _order_by sent has exactly one entry per
\* distinct field name, each field with the direction of its last occurrence,
\* "asc" when that item has no direction.
C9_OrderByLastWins ==
    (QueryTableHandled /\ sent # <<>> /\ SortOf(req.args) # <<>>) =>
        LET sort == SortOf(req.args)
            fragments == FragmentsNamed(sent[1], "_order_by")
            parsed == ParseObject(fragments[1].text)
        IN  /\ Len(fragments) = 1
            /\ parsed.ok
            /\ Len(parsed.v) = Cardinality({sort[i].field : i \in 1..Len(sort)})
            /\ \A i \in 1..Len(sort) :
                  LET last == sort[LastIndexOf(sort, sort[i].field)]
                  IN  Entry(last.field,
                            JStr(IF IsSome(last.direction)
                                 THEN Val(last.direction) ELSE asc))
                      \in EntrySet(parsed.v)

(***************************************************************************)
(* C3                                                                      *)
(***************************************************************************)
\* the request in hand is a getFieldOptions request, and its handler has run
GetFieldOptionsHandled ==
    IsSome(graphqlClient) /\ req.tool = "getFieldOptions" /\ pc \in {"await", "done"}

\* the request in hand is a getTableSchema request, and its handler has run
GetTableSchemaHandled ==
    IsSome(graphqlClient) /\ req.tool = "getTableSchema" /\ pc \in {"await", "done"}

\* C3: a getFieldOptions request whose sampleSize is present and outside 1..100
\* (0, negative, above 100) ends in an InvalidRequest error, and no upstream
\* request is issued for it.
C3_BadSampleSizeRejected ==
    (/\ GetFieldOptionsHandled
     /\ IsSome(req.args.sampleSize)
     /\ Val(req.args.sampleSize) \notin 1..100) =>
        /\ pc = "done"
        /\ result.kind = "InvalidRequest"
        /\ sent = <<>>

(***************************************************************************)
(* C4                                                                      *)
(***************************************************************************)
Missing(o) == ~IsSome(o) \/ Val(o) = ""
MissingChars(o) == ~IsSome(o) \/ Val(o) = <<>>

\* C4: getTableSchema with an empty or missing tableName, and getFieldOptions with
\* an empty or missing tableName or fieldName, end in an error of the
\* InvalidRequest kind, with no upstream request issued.
C4_RequiredArgumentsRejected ==
    (\/ GetTableSchemaHandled /\ Missing(req.args.tableName)
     \/ /\ GetFieldOptionsHandled
        /\ (Missing(req.args.tableName) \/ MissingChars(req.args.fieldName))) =>
        /\ pc = "done"
        /\ result.kind = "InvalidRequest"
        /\ sent = <<>>

(***************************************************************************)
(* C5                                                                      *)
(***************************************************************************)
\* the candidates of a searchTable request: its fields when it names some,
\* the common fields when it names none
Candidates(a) ==
    IF IsSome(a.fields) /\ Val(a.fields) # <<>> THEN Val(a.fields) ELSE CommonFields

\* no candidate is a String scalar among the fields the schema answer holds
NoCandidateIsString(a, schemaData) ==
    \A i \in 1..Len(Candidates(a)) :
        ~\E j \in 1..Len(TableFields(schemaData)) :
            /\ TableFields(schemaData)[j].name = Candidates(a)[i]
            /\ TableFields(schemaData)[j].type = [kind |-> "SCALAR", name |-> Some("String")]

\* C5: once the schema has been answered for a searchTable request none of whose
\* candidates is a String scalar of that schema, the request ends in an
\* InvalidRequest error that is not wrapped, and the schema query is the only
\* query sent; the candidates of a request that names fields are those fields
\* alone, whatever the common fields would match.
C5_NoSearchableFieldRejected ==
    (/\ req.tool = "searchTable"
     /\ IsSome(local.schemaData)
     /\ NoCandidateIsString(req.args, Val(local.schemaData))) =>
        /\ pc = "done"
        /\ result.kind = "InvalidRequest"
        /\ result.prefix = ""
        /\ Len(sent) = 1
        /\ sent[1].op = "GetTableSchema"

\* notes is named and is no String scalar, while the common field name is one
C5_Witness ==
    /\ req.tool = "searchTable"
    /\ pc = "done"
    /\ IsSome(local.schemaData)
    /\ req.args.fields = Some(<<nNotes>>)
    /\ IsSome(Val(local.schemaData))
    /\ \E j \in 1..Len(Val(Val(local.schemaData))) :
          Val(Val(local.schemaData))[j] =
              [name |-> nName, type |-> [kind |-> "SCALAR", name |-> Some("String")]]
    /\ result.kind = "InvalidRequest"
    /\ Len(sent) = 1

(***************************************************************************)
(* C10                                                                     *)
(***************************************************************************)
\* how many times the string str is to be counted for the records: once for
\* every record holding a value, not an array, whose string form it is, and once
\* for every element of an array whose string form it is
TimesCounted(records, str) ==
    Cardinality({i \in 1..Len(records) :
                    /\ records[i].t \notin {"null", "undefined", "array"}
                    /\ StringOf(records[i]) = str})
    + Cardinality(UNION {{<<i, k>> : k \in {j \in 1..Len(records[i].l) :
                                                  StringOf(records[i].l[j]) = str}} :
                            i \in {j \in 1..Len(records) : records[j].t = "array"}})

\* the strings counted for the records
StringsOf(records) ==
    {StringOf(records[i]) :
        i \in {j \in 1..Len(records) : records[j].t \notin {"null", "undefined", "array"}}}
    \cup UNION {{StringOf(records[i].l[k]) : k \in 1..Len(records[i].l)} :
                    i \in {j \in 1..Len(records) : records[j].t = "array"}}

\* the records getFieldOptions has sampled, when it has sampled some
Sampled ==
    /\ req.tool = "getFieldOptions"
    /\ pc = "done"
    /\ IsSome(local.records)
    /\ IsSome(Val(local.records))
    /\ Val(Val(local.records)) # <<>>

\* C10: over the sampled records, nullCount is the number of records whose value
\* is null or absent, and the values reported are the strings counted, each with
\* the number of times it is counted: once per record holding it as a value that
\* is no array, once per array element, whatever the element.
C10_SamplerCounts ==
    Sampled =>
        LET records == Val(Val(local.records))
            values == result.body.values
        IN  /\ result.body.nullCount =
                  Cardinality({i \in 1..Len(records) :
                                  records[i].t \in {"null", "undefined"}})
            /\ {values[i].value : i \in 1..Len(values)} = StringsOf(records)
            /\ \A i \in 1..Len(values) :
                  values[i].count = TimesCounted(records, values[i].value)

(***************************************************************************)
(* C11                                                                     *)
(***************************************************************************)
\* getFieldOptions has had the upstream's answer, and it holds no record list
\* for the table or an empty one
NoRecordsSampled ==
    /\ req.tool = "getFieldOptions"
    /\ pc = "done"
    /\ IsSome(local.records)
    /\ (~IsSome(Val(local.records)) \/ Val(Val(local.records)) = <<>>)

\* C11: when the upstream answers with no record list for the table, or with an
\* empty one, getFieldOptions returns a result, not an error, with sampleSize 0,
\* totalUnique 0 and an empty values list.
C11_EmptyTableResult ==
    NoRecordsSampled =>
        /\ result.kind = "ok"
        /\ result.body.sampleSize = 0
        /\ result.body.totalUnique = 0
        /\ result.body.values = <<>>

C11_Witness ==
    /\ NoRecordsSampled
    /\ Val(local.records) = Some(<<>>)
    /\ result.kind = "ok"
    /\ result.body.sampleSize = 0

(***************************************************************************)
(* C12                                                                     *)
(***************************************************************************)
\* candidate i of request a is a String scalar among the fields of the schema
ValidCandidate(a, schemaData, i) ==
    \E j \in 1..Len(TableFields(schemaData)) :
        /\ TableFields(schemaData)[j].name = Candidates(a)[i]
        /\ TableFields(schemaData)[j].type = [kind |-> "SCALAR", name |-> Some("String")]

\* the first valid candidate, in the order of the candidates
FirstValidCandidate(a, schemaData) ==
    Candidates(a)[CHOOSE i \in 1..Len(Candidates(a)) :
                      /\ ValidCandidate(a, schemaData, i)
                      /\ \A j \in 1..(i - 1) : ~ValidCandidate(a, schemaData, j)]

\* the schema has been answered for the searchTable request in hand, and some
\* candidate is valid
SearchFieldFound ==
    /\ req.tool = "searchTable"
    /\ IsSome(local.schemaData)
    /\ ~NoCandidateIsString(req.args, Val(local.schemaData))

\* C12: for a searchTable request with a valid candidate, the _filter sent has
\* exactly one key, the first valid candidate in candidate order, mapped to the
\* search term, and the response's primarySearchField names that field.
C12_FirstFieldOnly ==
    SearchFieldFound =>
        LET first == FirstValidCandidate(req.args, Val(local.schemaData))
            fragments == FragmentsNamed(sent[2], "_filter")
        IN  /\ Len(sent) = 2
            /\ Len(fragments) = 1
            /\ ParseObject(fragments[1].text).ok
            /\ ParseObject(fragments[1].text).v = <<Entry(first, JStr(req.args.searchTerm))>>
            /\ (pc = "done" /\ result.kind = "ok") =>
                   result.body.primarySearchField = first

(***************************************************************************)
(* C13                                                                     *)
(***************************************************************************)
WhiteSpace == {" ", "\n"}

\* the names a selection text holds: its runs of characters other than white space
RECURSIVE SelectedFrom(_, _, _)
SelectedFrom(text, word, acc) ==
    IF text = <<>> THEN (IF word = <<>> THEN acc ELSE Append(acc, word))
    ELSE IF Head(text) \in WhiteSpace
    THEN SelectedFrom(Tail(text), <<>>, IF word = <<>> THEN acc ELSE Append(acc, word))
    ELSE SelectedFrom(Tail(text), Append(word, Head(text)), acc)

Selected(text) == SelectedFrom(text, <<>>, <<>>)

C13_WitnessDefault ==
    /\ QueryTableHandled
    /\ sent # <<>>
    /\ req.args.fields = Some(<<>>)
    /\ Selected(sent[1].fields) = <<nId, nTypename>>

(***************************************************************************)
(* C14                                                                     *)
(***************************************************************************)
\* a call of a tool whose name is none of the six tools' has been answered
UnknownToolCalled ==
    /\ pc = "done"
    /\ req.tool \notin {"query", "getTableSchema", "listTables", "queryTable",
                        "searchTable", "getFieldOptions"}
    /\ req.tool \notin {"resources/read", "resources/list"}

\* C14 as claimed: a call of a tool whose name is none of the six tools' returns
\* a MethodNotFound error whose message holds the name, and no upstream request
\* is issued.
C14_UnknownToolMethodNotFound ==
    UnknownToolCalled =>
        /\ result.kind = "MethodNotFound"
        /\ result.text = req.tool
        /\ sent = <<>>

\* C14 as amended: at a server that has its client, a call of a tool whose name
\* is none of the six tools' returns a MethodNotFound error whose message holds
\* the name; at a (legacy) server left without a client it returns the
\* not-configured InvalidRequest error, the check of the client coming before the
\* dispatch; no upstream request is issued in either case.
C14_UnknownToolByClient ==
    UnknownToolCalled =>
        /\ sent = <<>>
        /\ IF IsSome(graphqlClient)
           THEN /\ result.kind = "MethodNotFound"
                /\ result.prefix = "Unknown tool: "
                /\ result.text = req.tool
           ELSE /\ result.kind = "InvalidRequest"
                /\ result.text = "BaseQL endpoint not configured. Please set BASEQL_API_ENDPOINT and BASEQL_API_KEY environment variables."

C14_Witness ==
    /\ UnknownToolCalled
    /\ req.tool = "deleteTable"
    /\ IsSome(graphqlClient)
    /\ result.kind = "MethodNotFound"
    /\ result.text = "deleteTable"

(***************************************************************************)
(* C15                                                                     *)
(***************************************************************************)
\* the environment lacks the endpoint or the API key
LacksConfiguration == config.endpoint = "" \/ config.apiKey = <<>>

\* C15: a server whose environment lacks the endpoint or the API key never
\* issues an upstream request: the construction of BaseQLMCPServer throws, and
\* the legacy server answers every tool call and every read of the schema
\* resource with the not-configured error.
C15_NoRequestWithoutConfiguration ==
    LacksConfiguration =>
        /\ sent = <<>>
        /\ (config.entry = "BaseQLMCPServer" /\ pc # "new") => pc = "failed"
        /\ (/\ config.entry = "legacy"
            /\ pc = "done"
            /\ req.tool # "resources/list"
            /\ (req.tool = "resources/read" => req.args.uri = "baseql://schema")) =>
               /\ result.kind = "InvalidRequest"
               /\ result.text = "BaseQL endpoint not configured. Please set BASEQL_API_ENDPOINT and BASEQL_API_KEY environment variables."

C15_Witness ==
    /\ LacksConfiguration
    /\ config.entry = "legacy"
    /\ pc = "done"
    /\ req.tool = "queryTable"
    /\ result.kind = "InvalidRequest"
    /\ sent = <<>>

C15_WitnessThrows ==
    /\ LacksConfiguration
    /\ config.entry = "BaseQLMCPServer"
    /\ pc = "failed"

(***************************************************************************)
(* C16                                                                     *)
(***************************************************************************)
\* the upstream request of the operation in hand has thrown, and the operation
\* has answered
UpstreamThrew == pc = "done" /\ IsSome(local.error)

\* C16: when the upstream request of query, getTableSchema, listTables,
\* queryTable, searchTable, getFieldOptions or the read of the schema resource
\* throws, the caller receives an InternalError whose message holds the message
\* of the error thrown.
C16_UpstreamErrorNormalised ==
    UpstreamThrew =>
        /\ req.tool \in {"query", "getTableSchema", "listTables", "queryTable",
                         "searchTable", "getFieldOptions", "resources/read"}
        /\ result.kind = "InternalError"
        /\ result.prefix # ""
        /\ Val(local.error).isError => result.text = Val(local.error).message

C16_Witness ==
    /\ UpstreamThrew
    /\ req.tool = "listTables"
    /\ Val(local.error).isError
    /\ result.kind = "InternalError"
    /\ result.prefix = "Failed to list tables: "
    /\ result.text = "socket hang up"

(***************************************************************************)
(* C17                                                                     *)
(***************************************************************************)
\* the requests sent for the operation in hand are within its bound: one, or
\* for searchTable two, the schema fetch and then, the schema fetch having been
\* answered and a field to search found, the data fetch
RequestsBounded ==
    /\ req.tool \in {"query", "getTableSchema", "listTables", "queryTable",
                     "getFieldOptions", "resources/read"} => Len(sent) <= 1
    /\ req.tool = "searchTable" =>
          /\ Len(sent) <= 2
          /\ Len(sent) >= 1 => sent[1].op = "GetTableSchema"
          /\ Len(sent) = 2 =>
                /\ sent[2].op = "SearchTable"
                /\ IsSome(local.schemaData)
                /\ local.fieldsToSearch # <<>>
    /\ req.tool \notin {"query", "getTableSchema", "listTables", "queryTable",
                        "getFieldOptions", "resources/read", "searchTable"} =>
          sent = <<>>

\* a step that issues a request issues one, for an operation that has had no
\* failure and has not answered
IssuesWithoutFailure ==
    sent' # sent /\ sent' # <<>> =>
        /\ Len(sent') = Len(sent) + 1
        /\ pc \in {"idle", "awaitSchema"}
        /\ ~IsSome(local.error)
        /\ ~IsSome(local'.error)

\* C17: no operation retries: the requests of an operation stay within its bound
\* (one; two for searchTable, the data fetch only after the schema fetch has
\* succeeded and a searchable field was found), and no request is issued after
\* a failure or after the answer.
C17_NoRetry == []RequestsBounded /\ [][IssuesWithoutFailure]_vars

C17_Witness ==
    /\ req.tool = "searchTable"
    /\ pc = "done"
    /\ IsSome(local.error)
    /\ Len(sent) = 1
    /\ result.kind = "InternalError"

C17_WitnessTwo ==
    /\ req.tool = "searchTable"
    /\ pc = "done"
    /\ IsSome(local.error)
    /\ Len(sent) = 2

(***************************************************************************)
(* C18                                                                     *)
(***************************************************************************)
\* the handler of tool on arguments a run alone from state c, the upstream
\* answering its requests with replies in turn
RECURSIVE AloneFrom(_, _, _, _)
AloneFrom(tool, a, c, replies) ==
    IF replies = <<>> \/ c.pc = "done" THEN c
    ELSE AloneFrom(tool, a, Resume(tool, a, c, Head(replies)), Tail(replies))

Alone(tool, a, replies) == AloneFrom(tool, a, Begin(tool, a), replies)

\* every call in flight is where it is when run alone against the answers it
\* has had: the same position, requests sent and response
AsAlone ==
    \A i \in DOMAIN calls :
        calls[i].tool # "none" =>
            LET alone == Alone(calls[i].tool, calls[i].args, calls[i].replies)
            IN  /\ calls[i].pc = alone.pc
                /\ calls[i].sent = alone.sent
                /\ calls[i].result = alone.result

\* the client handle is not written once the server is constructed
ClientKept == pc # "new" => graphqlClient' = graphqlClient /\ config' = config

Header == Val(graphqlClient).Authorization

\* what follows the first seven characters of s
AfterPrefix(s) == SubSeq(s, Len(Bearer) + 1, Len(s))

\* s starts with "Bearer " and what follows does not
StartsWithOnePrefix(s) ==
    StartsWithPrefix(s, Bearer) /\ ~StartsWithPrefix(AfterPrefix(s), Bearer)

\* a key taken as it is when it starts with "Bearer ", prefixed when not, and
\* normalised again without change
NormalisedFrom(apiKey) ==
    /\ StartsWithPrefix(Header, Bearer)
    /\ StartsWithPrefix(apiKey, Bearer) => Header = apiKey
    /\ ~StartsWithPrefix(apiKey, Bearer) => Header = Bearer \o apiKey
    /\ Authorization(Header) = Header

\* C19 as stated: the Authorization header always starts with exactly one
\* "Bearer " prefix, a key with the prefix being used unchanged, any other key
\* being prefixed, and normalisation being idempotent.
C19_ExactlyOnePrefix ==
    IsSome(graphqlClient) =>
        StartsWithOnePrefix(Header) /\ NormalisedFrom(config.apiKey)

\* C19: the Authorization header always starts with "Bearer ": a key that
\* starts with "Bearer " is used unchanged, any other key gets the prefix
\* prepended, and normalising a normalised key changes nothing; the header
\* starts with exactly one prefix unless the key itself starts with two.
C19_BearerPrefixed ==
    IsSome(graphqlClient) =>
        /\ NormalisedFrom(config.apiKey)
        /\ StartsWithOnePrefix(Header)
              <=> ~( /\ StartsWithPrefix(config.apiKey, Bearer)
                     /\ StartsWithPrefix(AfterPrefix(config.apiKey), Bearer) )

\* a key that carries the prefix, on either entry point, used as it is
C19_Witness ==
    /\ IsSome(graphqlClient)
    /\ config.apiKey = Bearer \o <<"k">>
    /\ Header = config.apiKey

\* a key without the prefix ("Bearer" with no space after it), prefixed
C19_WitnessPrefixed ==
    /\ IsSome(graphqlClient)
    /\ config.entry = "legacy"
    /\ config.apiKey = <<"B", "e", "a", "r", "e", "r">>
    /\ Header = Bearer \o config.apiKey

(***************************************************************************)
(* C20                                                                     *)
(***************************************************************************)
\* listTables has had the types of an introspection and has answered
TablesListed ==
    /\ pc = "done"
    /\ req.tool = "listTables"
    /\ IsSome(local.types)
    /\ IsSome(Val(local.types))

Introspected == Val(Val(local.types))

underscores == <<"_", "_">>

\* the places of the introspected types that are tables
TablePlaces ==
    { i \in 1..Len(Introspected) :
        /\ Introspected[i].kind = "OBJECT"
        /\ ~( /\ Len(Introspected[i].name) >= 2
              /\ SubSeq(Introspected[i].name, 1, 2) = underscores )
        /\ Introspected[i].name # <<"Q", "u", "e", "r", "y">>
        /\ Introspected[i].name # <<"M", "u", "t", "a", "t", "i", "o", "n">>
        /\ Introspected[i].name #
              <<"S", "u", "b", "s", "c", "r", "i", "p", "t", "i", "o", "n">> }

\* the place in the answer of the table at place i of the introspection
PlaceInAnswer(i) == Cardinality({j \in TablePlaces : j <= i})

Described(type) ==
    IF type.description = None \/ type.description = Some("")
    THEN "No description available"
    ELSE Val(type.description)

\* C20: listTables returns exactly the introspected types whose kind is OBJECT,
\* whose name does not start with "__" and is not Query, Mutation or
\* Subscription, in introspection order, each with its own description or the
\* text "No description available" when the description is null or empty.
C20_ListTablesExactlyTables ==
    TablesListed =>
        /\ result.kind = "ok"
        /\ Len(result.body) = Cardinality(TablePlaces)
        /\ \A i \in TablePlaces :
              /\ result.body[PlaceInAnswer(i)].name = Introspected[i].name
              /\ result.body[PlaceInAnswer(i)].description = Described(Introspected[i])

\* three types introspected, the first not a table; two tables listed in their
\* order, one with its own description and one with none
C20_Witness ==
    /\ TablesListed
    /\ Len(Introspected) = 3
    /\ TablePlaces = {2, 3}
    /\ Introspected[1].kind # "OBJECT"
    /\ Introspected[2].description = None
    /\ Introspected[3].name = tContacts
    /\ result.body = << [name |-> Introspected[2].name,
                         description |-> "No description available"],
                        [name |-> tContacts, description |-> "People"] >>

\* a root type, a meta type and a type with an empty description
C20_WitnessRoots ==
    /\ TablesListed
    /\ Len(Introspected) = 3
    /\ Introspected[1].name = <<"Q", "u", "e", "r", "y">>
    /\ Introspected[2].name = <<"_", "_", "S", "c", "h", "e", "m", "a">>
    /\ Introspected[3].description = Some("")
    /\ Len(result.body) = 1
    /\ result.body[1].description = "No description available"

(***************************************************************************)
(* C21                                                                     *)
(***************************************************************************)
\* a resource has been asked for and its handler has run
ResourceRead == req.tool = "resources/read" /\ pc \in {"await", "done"}

\* the answer is an error of the kind the server gives what it does not find
\* (an unknown resource, no searchable field) and names the uri
NotFoundNaming(uri) ==
    /\ result.kind = "InvalidRequest"
    /\ result.prefix = "Unknown resource: "
    /\ result.text = uri

\* C21: reading any resource URI other than baseql://schema fails with a
\* NotFound-equivalent error naming the URI and issues no upstream request;
\* baseql://schema is the only resource listed, and reading it returns the
\* introspection payload serialized as text.
C21_Resources ==
    /\ (ResourceRead /\ req.args.uri # "baseql://schema") =>
          pc = "done" /\ NotFoundNaming(req.args.uri) /\ sent = <<>>
    /\ (req.tool = "resources/list" /\ pc = "done") =>
          /\ result.kind = "ok"
          /\ Len(result.body) = 1
          /\ result.body[1].uri = "baseql://schema"
    /\ (ResourceRead /\ pc = "done" /\ IsSome(local.data)) =>
          /\ req.args.uri = "baseql://schema"
          /\ result.kind = "ok"
          /\ Len(result.body) = 1
          /\ result.body[1].uri = "baseql://schema"
          /\ result.body[1].text = [stringified |-> Val(local.data), indent |-> 2]

\* a uri that differs from the schema's by a trailing slash, refused by name
C21_Witness ==
    /\ ResourceRead
    /\ req.args.uri = "baseql://schema/"
    /\ result.kind = "InvalidRequest"
    /\ result.text = "baseql://schema/"

\* the schema read and answered with the payload the upstream gave
C21_WitnessSchema ==
    /\ ResourceRead
    /\ pc = "done"
    /\ local.data = Some("{__schema: {types: [Contacts]}}")
    /\ result.kind = "ok"

\* the resources listed by a server that has no client
C21_WitnessListed ==
    /\ req.tool = "resources/list"
    /\ pc = "done"
    /\ ~IsSome(graphqlClient)
    /\ Len(result.body) = 1

(***************************************************************************)
(* C22                                                                     *)
(***************************************************************************)
\* queryTable has sent its query
QueryTableSent == QueryTableHandled /\ Len(sent) = 1

\* the fragments a request gives rise to: a filter with a key, a sort with an
\* item, a limit, an offset
Produces(a, name) ==
    CASE name = "_filter" -> IsSome(a.filter) /\ Val(a.filter) # <<>>
      [] name = "_order_by" -> IsSome(a.sort) /\ Val(a.sort) # <<>>
      [] name = "_page_size" -> IsSome(a.limit)
      [] name = "_page" -> IsSome(a.offset)

FixedOrder == <<"_filter", "_order_by", "_page_size", "_page">>

FixedOrderChars ==
    << <<"_", "f", "i", "l", "t", "e", "r">>,
       <<"_", "o", "r", "d", "e", "r", "_", "b", "y">>,
       <<"_", "p", "a", "g", "e", "_", "s", "i", "z", "e">>,
       <<"_", "p", "a", "g", "e">> >>

\* the encoded value the query carries under name
EncodedUnder(q, name) == FragmentsNamed(q, name)[1].text

\* the fragments from place i of the fixed order on, each after ", " unless first
RECURSIVE ListedFrom(_, _, _, _)
ListedFrom(a, q, i, first) ==
    IF i > Len(FixedOrder) THEN <<>>
    ELSE IF Produces(a, FixedOrder[i])
    THEN (IF first THEN <<>> ELSE <<",", " ">>)
         \o FixedOrderChars[i] \o <<":", " ">> \o EncodedUnder(q, FixedOrder[i])
         \o ListedFrom(a, q, i + 1, FALSE)
    ELSE ListedFrom(a, q, i + 1, first)

\* C22: the argument list queryTable embeds in the query text contains its
\* fragments in the fixed order _filter, _order_by, _page_size, _page, whichever
\* subset is present, joined with ", " and wrapped in parentheses; when no
\* fragment is produced the argument string is empty, without parentheses.
C22_ArgumentList ==
    QueryTableSent =>
        LET a == req.args
            q == sent[1]
        IN  /\ \A i \in 1..4 :
                  Len(FragmentsNamed(q, FixedOrder[i]))
                      = (IF Produces(a, FixedOrder[i]) THEN 1 ELSE 0)
            /\ IF \E i \in 1..4 : Produces(a, FixedOrder[i])
               THEN q.argsString = <<"(">> \o ListedFrom(a, q, 1, TRUE) \o <<")">>
               ELSE q.argsString = <<>>

\* all four fragments
C22_Witness ==
    /\ QueryTableSent
    /\ \A i \in 1..4 : Produces(req.args, FixedOrder[i])
    /\ Len(sent[1].argsList) = 4
    /\ Head(sent[1].argsString) = "("

\* an empty filter and an empty sort, no limit, no offset: no argument string
C22_WitnessNone ==
    /\ QueryTableSent
    /\ req.args.filter = Some(<<>>)
    /\ req.args.sort = Some(<<>>)
    /\ req.args.limit = None
    /\ req.args.offset = None
    /\ sent[1].argsString = <<>>

\* a sort and an offset alone: _order_by, _page
C22_WitnessSubset ==
    /\ QueryTableSent
    /\ req.args.filter = None
    /\ req.args.limit = None
    /\ Len(sent[1].argsList) = 2
    /\ sent[1].argsList[1].name = "_order_by"
    /\ sent[1].argsList[2].name = "_page"

(***************************************************************************)
(* C23                                                                     *)
(***************************************************************************)
\* the schema has been answered for the searchTable request in hand
SearchSchemaAnswered == req.tool = "searchTable" /\ IsSome(local.schemaData)

\* the places of the candidates that are fields of the table with type kind
\* SCALAR and type name String
SearchablePlaces ==
    LET tableFields == TableFields(Val(local.schemaData))
    IN  { i \in 1..Len(Candidates(req.args)) :
            \E j \in 1..Len(tableFields) :
                /\ tableFields[j].name = Candidates(req.args)[i]
                /\ tableFields[j].type.kind = "SCALAR"
                /\ tableFields[j].type.name = Some("String") }

\* the place in the field list of the candidate at place i
PlaceInFields(i) == Cardinality({j \in SearchablePlaces : j <= i})

C23_WitnessCommon ==
    /\ SearchSchemaAnswered
    /\ req.args.fields = None
    /\ \E j \in 1..Len(TableFields(Val(local.schemaData))) :
          TableFields(Val(local.schemaData))[j] =
              [name |-> nEmail, type |-> [kind |-> "OBJECT", name |-> Some("String")]]
    /\ local.fieldsToSearch = <<nName>>

\* a named field that is a Float scalar, left out
C23_WitnessFloat ==
    /\ SearchSchemaAnswered
    /\ req.args.fields = Some(<<nName, nEmail>>)
    /\ \E j \in 1..Len(TableFields(Val(local.schemaData))) :
          TableFields(Val(local.schemaData))[j] =
              [name |-> nName, type |-> [kind |-> "SCALAR", name |-> Some("Float")]]
    /\ local.fieldsToSearch = <<nEmail>>

(***************************************************************************)
(* C24                                                                     *)
(***************************************************************************)
\* getFieldOptions has had the upstream's answer and has returned a result
FieldOptionsReturned ==
    /\ req.tool = "getFieldOptions"
    /\ pc = "done"
    /\ IsSome(local.records)
    /\ result.kind = "ok"

\* the records the upstream returned: none when it holds no list for the table
Returned == IF IsSome(Val(local.records)) THEN Val(Val(local.records)) ELSE <<>>

RECURSIVE SumOfCounts(_)
SumOfCounts(values) ==
    IF values = <<>> THEN 0 ELSE Head(values).count + SumOfCounts(Tail(values))

\* the nullCount of the result; a result for no records has none
NullCountOf(body) == IF Returned = <<>> THEN 0 ELSE body.nullCount

NoArraySampled == \A i \in 1..Len(Returned) : Returned[i].t # "array"

\* C24: for every getFieldOptions result, sampleSize is the number of records
\* the upstream returned, and whenever no sampled record holds an array for the
\* target field the sum of all value counts plus nullCount is at most sampleSize,
\* and equal to it.
C24_CountsWithinSample ==
    FieldOptionsReturned =>
        /\ result.body.sampleSize = Len(Returned)
        /\ NoArraySampled =>
              /\ SumOfCounts(result.body.values) + NullCountOf(result.body)
                    <= result.body.sampleSize
              /\ SumOfCounts(result.body.values) + NullCountOf(result.body)
                    = result.body.sampleSize

\* [{t:"A"},{t:"B"},{t:"A"},{t:null}]: counts 2 and 1, one null, four records
C24_Witness ==
    /\ FieldOptionsReturned
    /\ Returned = <<JStr(sA), JStr(sB), JStr(sA), JNull>>
    /\ SumOfCounts(result.body.values) = 3
    /\ result.body.nullCount = 1
    /\ result.body.sampleSize = 4

\* records holding arrays, whose elements count for more than the records
C24_WitnessArrays ==
    /\ FieldOptionsReturned
    /\ Returned = <<JList(<<JStr(sA), JStr(sB)>>), JList(<<JStr(sA)>>)>>
    /\ SumOfCounts(result.body.values) = 3
    /\ result.body.sampleSize = 2

(***************************************************************************)
(* C25                                                                     *)
(***************************************************************************)
\* the strings the sample holds, in the order they are met: the string of a
\* record's value, the strings of the elements of a record's array; a null or
\* absent value holds none
RECURSIVE SeenIn(_)
SeenIn(records) ==
    IF records = <<>> THEN <<>>
    ELSE (CASE Head(records).t \in {"null", "undefined"} -> <<>>
            [] Head(records).t = "array" ->
                  [k \in 1..Len(Head(records).l) |-> StringOf(Head(records).l[k])]
            [] OTHER -> <<StringOf(Head(records))>>)
         \o SeenIn(Tail(records))

\* the place at which str is first seen
FirstSeen(seen, str) ==
    CHOOSE i \in 1..Len(seen) :
        seen[i] = str /\ \A j \in 1..(i - 1) : seen[j] # str

\* C25: the values list of a getFieldOptions result is ordered by count,
\* non-increasing from first to last, and values with equal counts appear in
\* the order in which they were first seen in the sample.
C25_OrderedByCount ==
    Sampled =>
        LET values == result.body.values
            seen == SeenIn(Val(Val(local.records)))
        IN  \A i, j \in 1..Len(values) :
                i < j =>
                    /\ values[i].count >= values[j].count
                    /\ values[i].count = values[j].count =>
                          FirstSeen(seen, values[i].value) < FirstSeen(seen, values[j].value)

(***************************************************************************)
(* C26                                                                     *)
(***************************************************************************)
SampledRecords == Val(Val(local.records))

\* C26: in every non-empty getFieldOptions result, isMultiSelect is true
\* exactly when at least one sampled record holds an array (an empty array
\* included) for the target field; for [{t:"A"},{t:"B"},{t:"A"},{t:null}] it is
\* false and for [{t:["A","B"]},{t:["A"]}] it is true.
C26_MultiSelectFlag ==
    Sampled =>
        /\ result.body.isMultiSelect
              <=> (\E i \in 1..Len(SampledRecords) : SampledRecords[i].t = "array")
        /\ SampledRecords = <<JStr(sA), JStr(sB), JStr(sA), JNull>>
              => result.body.isMultiSelect = FALSE
        /\ SampledRecords = <<JList(<<JStr(sA), JStr(sB)>>), JList(<<JStr(sA)>>)>>
              => result.body.isMultiSelect = TRUE

\* one record with an empty array among records without any
C26_Witness ==
    /\ Sampled
    /\ SampledRecords = <<JStr(sA), JList(<<>>), JNull>>
    /\ result.body.isMultiSelect = TRUE
    /\ result.body.values = <<[value |-> sA, count |-> 1]>>

\* the first example: no array, no flag
C26_WitnessSingle ==
    /\ Sampled
    /\ SampledRecords = <<JStr(sA), JStr(sB), JStr(sA), JNull>>
    /\ result.body.isMultiSelect = FALSE

\* the second example: arrays, the flag
C26_WitnessMulti ==
    /\ Sampled
    /\ SampledRecords = <<JList(<<JStr(sA), JStr(sB)>>), JList(<<JStr(sA)>>)>>
    /\ result.body.isMultiSelect = TRUE

(***************************************************************************)
(* C27                                                                     *)
(***************************************************************************)
\* the upstream call of queryTable has failed with the value local.error holds
QueryTableFailed ==
    /\ QueryTableHandled
    /\ pc = "done"
    /\ IsSome(local.error)

\* the substrings looked for, in their order, each with its hint
HintFor ==
    << [substring |-> "Unknown type Int",
        hint |-> ". BaseQL uses Float instead of Int for numbers."],
       [substring |-> "Unknown argument",
        hint |-> ". BaseQL uses _filter, _page_size, _page, _order_by instead of standard GraphQL arguments."],
       [substring |-> "Cannot query field",
        hint |-> ". Field may not exist - use getTableSchema to see available fields."] >>

\* the places of the substrings the message of the value thrown holds; a value
\* that is no Error has no message of its own
Matching(error) ==
    {i \in 1..Len(HintFor) : error.isError /\ HintFor[i].substring \in error.includes}

\* the least of a non-empty set of places
First(places) == CHOOSE i \in places : \A j \in places : i <= j

\* C27: when queryTable's upstream call fails, the surfaced message is the
\* upstream message followed by at most one hint, that of the first matching
\* substring in the order "Unknown type Int", "Unknown argument", "Cannot query
\* field"; a message matching none of them is passed through without a hint; a
\* validation error raised by queryTable itself is neither annotated nor
\* re-wrapped.
C27_QueryTableHints ==
    /\ QueryTableFailed =>
          LET error == Val(local.error)
          IN  /\ result.kind = "InternalError"
              /\ result.text = (IF error.isError THEN error.message ELSE "Unknown error")
              /\ result.hint = (IF Matching(error) = {} THEN ""
                                ELSE HintFor[First(Matching(error))].hint)
    /\ (QueryTableHandled /\ pc = "done" /\ sent = <<>>) =>
          /\ result.kind = "InvalidRequest"
          /\ result.prefix = ""
          /\ result.hint = ""

\* a message holding the second and the third substring: the second's hint
C27_Witness ==
    /\ QueryTableFailed
    /\ Val(local.error).includes = {"Unknown argument", "Cannot query field"}
    /\ result.hint = HintFor[2].hint

\* a message holding none of them: no hint
C27_WitnessNone ==
    /\ QueryTableFailed
    /\ Val(local.error).message = "socket hang up"
    /\ result.text = "socket hang up"
    /\ result.hint = ""

\* a validation error, as it was thrown
C27_WitnessValidation ==
    /\ QueryTableHandled
    /\ pc = "done"
    /\ sent = <<>>
    /\ result.text = "offset must be 0 or positive"
    /\ result.prefix = ""

(***************************************************************************)
(* C28                                                                     *)
(***************************************************************************)
\* the text is a number written in digits, and n is that number
Denotes(text, n) ==
    /\ text # <<>>
    /\ \A k \in 1..Len(text) : text[k] \in DigitChars
    /\ ParseNat(text) = n

\* a query document of queryTable is within the upstream's bounds
WithinBounds(q) ==
    /\ \A k \in 1..Len(FragmentsNamed(q, "_page_size")) :
          \E n \in 1..100 : Denotes(FragmentsNamed(q, "_page_size")[k].text, n)
    /\ \A k \in 1..Len(FragmentsNamed(q, "_page")) :
          /\ ~Denotes(FragmentsNamed(q, "_page")[k].text, 0)
          /\ Denotes(FragmentsNamed(q, "_page")[k].text,
                     ParseNat(FragmentsNamed(q, "_page")[k].text))
    /\ \A k \in 1..Len(FragmentsNamed(q, "_order_by")) :
          LET parsed == ParseObject(FragmentsNamed(q, "_order_by")[k].text)
          IN  /\ parsed.ok
              /\ \A i \in 1..Len(parsed.v) :
                    parsed.v[i].v \in {JStr(<<"a", "s", "c">>), JStr(<<"d", "e", "s", "c">>)}

SearchFetched == req.tool = "searchTable" /\ Len(sent) = 2

\* the integer a text of digits, with or without a minus sign, denotes
ParseInt(text) ==
    IF Head(text) = "-" THEN 0 - ParseNat(Tail(text)) ELSE ParseNat(text)

\* the limit of the request, 10 when it has none
LimitAsked == IF req.args.limit = None THEN 10 ELSE Val(req.args.limit)

\* C29: for every searchTable request that reaches the data fetch, the
\* _page_size sent upstream is min(limit, 100), with limit taken as 10 when
\* omitted, so it never exceeds the upstream cap of 100; the limit reported in
\* the response equals the _page_size that was sent.
C29_SearchPageSize ==
    SearchFetched =>
        LET sizes == FragmentsNamed(sent[2], "_page_size")
        IN  /\ Len(sizes) = 1
            /\ ParseInt(sizes[1].text) = (IF LimitAsked <= 100 THEN LimitAsked ELSE 100)
            /\ ParseInt(sizes[1].text) <= 100
            /\ (pc = "done" /\ result.kind = "ok") =>
                  result.body.limit = ParseInt(sizes[1].text)

\* a limit above the cap, sent and reported as 100
C29_Witness ==
    /\ SearchFetched
    /\ req.args.limit = Some(250)
    /\ FragmentsNamed(sent[2], "_page_size")[1].text = <<"1", "0", "0">>
    /\ pc = "done"
    /\ result.kind = "ok"
    /\ result.body.limit = 100

\* no limit: 10 is sent and reported
C29_WitnessDefault ==
    /\ SearchFetched
    /\ req.args.limit = None
    /\ FragmentsNamed(sent[2], "_page_size")[1].text = <<"1", "0">>
    /\ pc = "done"
    /\ result.kind = "ok"
    /\ result.body.limit = 10

(***************************************************************************)
(* C30                                                                     *)
(***************************************************************************)
\* C30: in every non-empty getFieldOptions result, totalUnique equals the
\* length of values, each value string occurs in values exactly once, and every
\* listed count is at least 1.
C30_UniqueValues ==
    Sampled =>
        LET values == result.body.values
        IN  /\ result.body.totalUnique = Len(values)
            /\ \A i, j \in 1..Len(values) : values[i].value = values[j].value => i = j
            /\ \A i \in 1..Len(values) : values[i].count >= 1

\* A as a value and as an element of two arrays, and B once: two values listed
C30_Witness ==
    /\ Sampled
    /\ SampledRecords = <<JList(<<JStr(sA), JStr(sB)>>), JStr(sA), JList(<<JStr(sA)>>)>>
    /\ result.body.totalUnique = 2
    /\ result.body.values = <<[value |-> sA, count |-> 3], [value |-> sB, count |-> 1]>>

\* records that hold nothing to count: a result that is not empty, without values
C30_WitnessNoValues ==
    /\ Sampled
    /\ SampledRecords = <<JNull, JList(<<>>)>>
    /\ result.body.totalUnique = 0
    /\ result.body.values = <<>>

====
